---------------------------- MODULE Spec2Model ----------------------------
(***************************************************************************)
(* The tikhub_call dispatcher of search-stack, as it is written twice:     *)
(* in the stdio tool server (src/proxy/mcp-server.ts) and in the           *)
(* in-process plugin (src/plugin/index.ts).                                *)
(*                                                                         *)
(* JavaScript values are tagged records:                                   *)
(*   [t |-> "undefined"], [t |-> "null"], [t |-> "boolean", b |-> ...],    *)
(*   [t |-> "number", n |-> ...], [t |-> "string", s |-> ...],             *)
(*   [t |-> "array", a |-> <<values>>],                                    *)
(*   [t |-> "object", o |-> << <<key, value>>, ... >>] (insertion order),  *)
(*   [t |-> "function", name |-> ...] (a built-in of Object.prototype).    *)
(* A string handed in as the raw `arguments` is given by its JSON lexemes: *)
(*   [t |-> "string", lx |-> <<lexemes>>], the empty string being <<>>.    *)
(* A text built by a template literal is the sequence of its parts, each   *)
(* part a value as interpolated. The source's Chinese literals are written *)
(* in English, named at their definitions.                                 *)
(***************************************************************************)
EXTENDS Integers, Sequences, FiniteSets, TLC

(***************************************************************************)
(* Values                                                                  *)
(***************************************************************************)
Undefined == [t |-> "undefined"]
Null == [t |-> "null"]
Bool(b) == [t |-> "boolean", b |-> b]
Num(n) == [t |-> "number", n |-> n]
Str(s) == [t |-> "string", s |-> s]
Arr(a) == [t |-> "array", a |-> a]
Obj(o) == [t |-> "object", o |-> o]
RawString(lx) == [t |-> "string", lx |-> lx]

Min(a, b) == IF a < b THEN a ELSE b

\* A string too long to write out: BigString stands for BigStringLen characters.
BigString == "<a string of 50001 characters>"
BigStringLen == 50001
LongBody == "<a response body of 201 characters>"
LongBodyLen == 201

\* s.length
StrLen(s) ==
  IF s = BigString THEN BigStringLen
  ELSE IF s = LongBody THEN LongBodyLen
  ELSE Len(s)

\* JavaScript truthiness, as `x && ...`, `x || ...`, `if (x)`, `!x` use it.
Truthy(v) ==
  CASE v.t = "undefined" -> FALSE
    [] v.t = "null" -> FALSE
    [] v.t = "boolean" -> v.b
    [] v.t = "number" -> v.n # 0
    [] v.t = "string" -> IF "s" \in DOMAIN v THEN v.s # "" ELSE v.lx # <<>>
    [] OTHER -> TRUE

\* typeof v === "object" (null included, as in JavaScript)
TypeofObject(v) == v.t \in {"object", "array", "null"}

IsArray(v) == v.t = "array"

\* Object.keys(obj), for a plain object, as a set
KeySet(v) == {v.o[i][1] : i \in 1..Len(v.o)}

\* k in obj, for the keys this program asks about (none is inherited, none is
\* an array index or "length")
HasKey(v, k) == v.t = "object" /\ k \in KeySet(v)

\* v[k] where v is neither null nor undefined: an own property, else undefined.
Get(v, k) ==
  IF HasKey(v, k)
  THEN LET i == CHOOSE j \in 1..Len(v.o) : v.o[j][1] = k IN v.o[i][2]
  ELSE Undefined

\* v[k] throws a TypeError exactly when v is null or undefined.
CanRead(v) == v.t \notin {"null", "undefined"}

(***************************************************************************)
(* JSON.parse, over the lexemes of the text                                *)
(***************************************************************************)
LP(c) == [k |-> "punct", v |-> c]
LStr(s) == [k |-> "str", v |-> s]
LNum(n) == [k |-> "num", n |-> n]
LLit(w) == [k |-> "lit", v |-> w]
LBare(w) == [k |-> "bare", v |-> w]

IsPunct(tok, c) == tok.k = "punct" /\ tok.v = c

ParseFail == [ok |-> FALSE, val |-> Undefined, rest |-> <<>>]

\* obj[k] = v while parsing: a repeated key keeps its place and takes the last value.
PutMember(members, k, v) ==
  IF \E i \in 1..Len(members) : members[i][1] = k
  THEN [i \in 1..Len(members) |->
          IF members[i][1] = k THEN <<k, v>> ELSE members[i]]
  ELSE Append(members, <<k, v>>)

RECURSIVE ParseValue(_)
RECURSIVE ParseElements(_, _)
RECURSIVE ParseMembers(_, _)

\* After "[" and the elements read so far: a value, then "," or "]".
ParseElements(ts, acc) ==
  LET r == ParseValue(ts) IN
  IF ~r.ok \/ r.rest = <<>> THEN ParseFail
  ELSE IF IsPunct(Head(r.rest), "]")
       THEN [ok |-> TRUE, val |-> Arr(Append(acc, r.val)), rest |-> Tail(r.rest)]
  ELSE IF IsPunct(Head(r.rest), ",")
       THEN ParseElements(Tail(r.rest), Append(acc, r.val))
  ELSE ParseFail

\* After "{" and the members read so far: "key" : value, then "," or "}".
ParseMembers(ts, acc) ==
  IF Len(ts) < 2 \/ Head(ts).k # "str" \/ ~IsPunct(ts[2], ":") THEN ParseFail
  ELSE LET r == ParseValue(Tail(Tail(ts))) IN
       IF ~r.ok \/ r.rest = <<>> THEN ParseFail
       ELSE IF IsPunct(Head(r.rest), "}")
            THEN [ok |-> TRUE,
                  val |-> Obj(PutMember(acc, Head(ts).v, r.val)),
                  rest |-> Tail(r.rest)]
       ELSE IF IsPunct(Head(r.rest), ",")
            THEN ParseMembers(Tail(r.rest), PutMember(acc, Head(ts).v, r.val))
       ELSE ParseFail

ParseValue(ts) ==
  IF ts = <<>> THEN ParseFail
  ELSE LET h == Head(ts) IN
    CASE h.k = "lit" ->
           [ok |-> TRUE,
            val |-> IF h.v = "null" THEN Null ELSE Bool(h.v = "true"),
            rest |-> Tail(ts)]
      [] h.k = "num" -> [ok |-> TRUE, val |-> Num(h.n), rest |-> Tail(ts)]
      [] h.k = "str" -> [ok |-> TRUE, val |-> Str(h.v), rest |-> Tail(ts)]
      [] h.k = "punct" /\ h.v = "[" ->
           IF Len(ts) >= 2 /\ IsPunct(ts[2], "]")
           THEN [ok |-> TRUE, val |-> Arr(<<>>), rest |-> Tail(Tail(ts))]
           ELSE ParseElements(Tail(ts), <<>>)
      [] h.k = "punct" /\ h.v = "{" ->
           IF Len(ts) >= 2 /\ IsPunct(ts[2], "}")
           THEN [ok |-> TRUE, val |-> Obj(<<>>), rest |-> Tail(Tail(ts))]
           ELSE ParseMembers(Tail(ts), <<>>)
      [] OTHER -> ParseFail

\* JSON.parse(text): [ok |-> TRUE, val |-> value], or ok = FALSE for a SyntaxError.
JSONParse(lx) ==
  LET r == ParseValue(lx) IN
  IF r.ok /\ r.rest = <<>> THEN [ok |-> TRUE, val |-> r.val]
  ELSE [ok |-> FALSE, val |-> Undefined]


(***************************************************************************)
(* Platform label, keyword, emptiness test                                 *)
(***************************************************************************)
\* PLATFORM_NAMES: the Chinese labels are written in pinyin (douyin, xiaohongshu,
\* weibo, bilibili "B zhan", kuaishou).
PLATFORM_NAMES ==
  [douyin |-> "Douyin", tiktok |-> "TikTok", xiaohongshu |-> "Xiaohongshu",
   weibo |-> "Weibo", bilibili |-> "B zhan", instagram |-> "Instagram",
   youtube |-> "YouTube", twitter |-> "Twitter", kuaishou |-> "Kuaishou",
   reddit |-> "Reddit"]

\* What every object literal inherits from Object.prototype.
ObjectPrototypeKeys ==
  {"constructor", "toString", "valueOf", "hasOwnProperty", "isPrototypeOf",
   "propertyIsEnumerable", "toLocaleString", "__proto__"}

\* A tool name is the sequence of its underscore-delimited segments, so
\* toolName.split("_")[0] is its first segment.
extractPlatform(toolName) ==
  LET prefix == toolName[1] IN
  IF prefix \in DOMAIN PLATFORM_NAMES THEN Str(PLATFORM_NAMES[prefix])
  ELSE IF prefix \in ObjectPrototypeKeys THEN [t |-> "function", name |-> prefix]
  ELSE Undefined

KeywordKeys == <<"keyword", "query", "search_keyword", "keywords">>

\* typeof v === "string" && v
NonEmptyString(v) == v.t = "string" /\ Truthy(v)

\* Variant: only the first of the four keys that is present is looked at.
extractKeyword_FirstPresent(args) ==
  LET present == {i \in 1..Len(KeywordKeys) : HasKey(args, KeywordKeys[i])} IN
  IF present = {} THEN Undefined
  ELSE LET v == Get(args, KeywordKeys[CHOOSE i \in present : \A j \in present : i <= j])
       IN IF NonEmptyString(v) THEN v ELSE Undefined

\* Variant: the first of the four keys in the insertion order of the arguments.
extractKeyword_InsertionOrder(args) ==
  LET members == IF args.t = "object" THEN args.o ELSE <<>>
      hits == {i \in 1..Len(members) :
                 /\ \E k \in 1..Len(KeywordKeys) : members[i][1] = KeywordKeys[k]
                 /\ NonEmptyString(members[i][2])}
  IN IF hits = {} THEN Undefined
     ELSE members[CHOOSE i \in hits : \A j \in hits : i <= j][2]

\* extractKeyword(args), for args that can be read (args[key] throws otherwise)
extractKeyword(args) ==
  LET hits == {i \in 1..Len(KeywordKeys) : NonEmptyString(Get(args, KeywordKeys[i]))} IN
  IF hits = {} THEN Undefined
  ELSE Get(args, KeywordKeys[CHOOSE i \in hits : \A j \in hits : i <= j])

MetadataKeys == {"code", "data", "message", "recordTime", "msg"}

ListingKeys == {"items", "item_list", "notes", "note_list", "list", "results", "video_list"}

\* Variant: the metadata-wrapper rule left out.
isEmptyData_NoWrapperRule(data) ==
  IF data.t \in {"null", "undefined"} THEN TRUE
  ELSE IF data.t = "array" THEN Len(data.a) = 0
  ELSE IF data.t = "object" THEN
    \/ Len(data.o) = 0
    \/ \E k \in ListingKeys :
         HasKey(data, k) /\ IsArray(Get(data, k)) /\ Len(Get(data, k).a) = 0
  ELSE FALSE

\* Variant: the listing-key rule left out.
RECURSIVE isEmptyData_NoListingRule(_)
isEmptyData_NoListingRule(data) ==
  IF data.t \in {"null", "undefined"} THEN TRUE
  ELSE IF data.t = "array" THEN Len(data.a) = 0
  ELSE IF data.t = "object" THEN
    \/ Len(data.o) = 0
    \/ /\ HasKey(data, "data")
       /\ isEmptyData_NoListingRule(Get(data, "data"))
       /\ KeySet(data) \subseteq MetadataKeys
  ELSE FALSE

RECURSIVE isEmptyData(_)
isEmptyData(data) ==
  IF data.t \in {"null", "undefined"} THEN TRUE
  ELSE IF data.t = "array" THEN Len(data.a) = 0
  ELSE IF data.t = "object" THEN
    \/ Len(data.o) = 0
    \/ /\ HasKey(data, "data")
       /\ isEmptyData(Get(data, "data"))
       /\ KeySet(data) \subseteq MetadataKeys
    \/ \E k \in ListingKeys :
         HasKey(data, k) /\ IsArray(Get(data, k)) /\ Len(Get(data, k).a) = 0
  ELSE FALSE

(***************************************************************************)
(* Texts                                                                   *)
(***************************************************************************)
\* The tool name, interpolated into a text.
Tool(toolName) == [t |-> "tool", segs |-> toolName]

RECURSIVE StringifyLen(_, _)
RECURSIVE StringifySum(_, _, _)

\* The characters the items of an array or the members of an object take at
\* `depth`: each on its own line, indented, separated by ",\n".
StringifySum(items, isObject, depth) ==
  IF items = <<>> THEN 0
  ELSE LET h == Head(items)
           own == IF isObject
                  THEN StrLen(h[1]) + 4 + StringifyLen(h[2], depth)
                  ELSE StringifyLen(h, depth)
       IN 2 * depth + own + (IF Len(items) > 1 THEN 2 ELSE 0)
          + StringifySum(Tail(items), isObject, depth)

\* JSON.stringify(v, null, 2).length, v a parsed JSON value nested `depth` deep
\* (a string counted without escapes).
StringifyLen(v, depth) ==
  CASE v.t = "null" -> 4
    [] v.t = "boolean" -> IF v.b THEN 4 ELSE 5
    [] v.t = "number" -> Len(ToString(v.n))
    [] v.t = "string" -> StrLen(v.s) + 2
    [] v.t = "array" ->
         IF v.a = <<>> THEN 2
         ELSE 2 + StringifySum(v.a, FALSE, depth + 1) + 1 + 2 * depth + 1
    [] v.t = "object" ->
         IF v.o = <<>> THEN 2
         ELSE 2 + StringifySum(v.o, TRUE, depth + 1) + 1 + 2 * depth + 1

ResultLimit == 50000

\* let text = JSON.stringify(v, null, 2); if (text.length > 50000) text =
\* text.slice(0, 50000) + marker: the rendering of v, its first n characters
\* kept, and whether the truncation marker follows.
StringifyTruncated(v) ==
  [t |-> "json", v |-> v,
   n |-> Min(StringifyLen(v, 0), ResultLimit),
   truncated |-> StringifyLen(v, 0) > ResultLimit]

ExcerptLimit == 200

\* Variant: the body kept whole.
Excerpt_WholeBody(s) == [t |-> "slice", s |-> s, n |-> StrLen(s)]

\* text.slice(0, 200): the first n characters of s.
Excerpt(s) == [t |-> "slice", s |-> s, n |-> Min(StrLen(s), ExcerptLimit)]

(***************************************************************************)
(* Classification of the gateway's answer                                  *)
(***************************************************************************)
\* What the awaited fetch / res.text() / res.json() of the primary call come to:
\*   [k |-> "throw", msg |-> m]         fetch rejects (network error, timeout)
\*   [k |-> "status", status |-> n, body |-> s, textFails |-> b]   !res.ok
\*   [k |-> "ok", json |-> FALSE]       res.json() rejects with a SyntaxError
\*   [k |-> "ok", json |-> TRUE, data |-> v]   the parsed body
Failed(reason) == [failed |-> TRUE, reason |-> reason]

Returned(exit, text) == [failed |-> FALSE, exit |-> exit, text |-> text]

\* Variant: the message is put in as it is, without the default.
CodeReason_NoDefault(toolName, code, message) ==
  <<Tool(toolName), Str(" returned code "), code, Str(": "), message>>

CodeReason(toolName, code, message) ==
  <<Tool(toolName), Str(" returned code "), code, Str(": "),
    IF Truthy(message) THEN message ELSE Str("error")>>

EmptyReason(toolName) ==
  <<Tool(toolName), Str(" returned empty data (platform anti-bot)")>>

\* Variant: only codes from 400 up fail.
CodeFails_Only4xx5xx(code) == code.t = "number" /\ code.n >= 400

\* code && code !== 200
CodeFails(code) == Truthy(code) /\ code # Num(200)

\* Variant: the whole result object is the payload.
Payload_WholeResult(innerData, result) == result

\* innerData ?? result
Payload(innerData, result) ==
  IF innerData.t \in {"null", "undefined"} THEN result ELSE innerData

ResultMarker == Str("\n\n... (truncated, result too large)")

PlainMarker == Str("\n\n... (truncated)")

\* The text of a rendering, with the marker when it was cut.
WithMarker(prefix, json, marker) ==
  prefix \o <<json>> \o (IF json.truncated THEN <<marker>> ELSE <<>>)

\* Variant: the result text does not name the tool.
ClassifyResult_Unlabelled(toolName, result) ==
  LET innerData == Get(result, "data")
      code == Get(result, "code")
      message == Get(result, "message")
  IN IF CodeFails(code) THEN Failed(CodeReason(toolName, code, message))
     ELSE IF isEmptyData(innerData) THEN Failed(EmptyReason(toolName))
     ELSE Returned("success",
            WithMarker(<<Str("TikHub result:\n\n")>>,
                       StringifyTruncated(Payload(innerData, result)),
                       ResultMarker))

\* result is a structured object: lines 574-597 of the stdio server.
ClassifyResult(toolName, result) ==
  LET innerData == Get(result, "data")
      code == Get(result, "code")
      message == Get(result, "message")
  IN IF CodeFails(code) THEN Failed(CodeReason(toolName, code, message))
     ELSE IF isEmptyData(innerData) THEN Failed(EmptyReason(toolName))
     ELSE Returned("success",
            WithMarker(<<Str("TikHub "), Tool(toolName), Str(" result:\n\n")>>,
                       StringifyTruncated(Payload(innerData, result)),
                       ResultMarker))

\* Variant: without a result object the emptiness test is put to the whole body.
ClassifyData_TestsWhole(toolName, data) ==
  IF ~CanRead(data)
  THEN Failed(<<Str("TypeError: null is not an object (evaluating 'data.error')")>>)
  ELSE IF Truthy(Get(data, "error")) THEN Failed(<<Get(data, "error")>>)
  ELSE LET result == Get(data, "result") IN
       IF Truthy(result) /\ TypeofObject(result)
       THEN ClassifyResult(toolName, result)
       ELSE IF isEmptyData(data) THEN Failed(EmptyReason(toolName))
       ELSE Returned("unstructured",
              WithMarker(<<>>, StringifyTruncated(data), PlainMarker))

\* Variant: the result is looked at before the top-level error.
ClassifyData_ResultFirst(toolName, data) ==
  IF ~CanRead(data)
  THEN Failed(<<Str("TypeError: null is not an object (evaluating 'data.error')")>>)
  ELSE LET result == Get(data, "result") IN
       IF Truthy(result) /\ TypeofObject(result)
       THEN ClassifyResult(toolName, result)
       ELSE IF Truthy(Get(data, "error")) THEN Failed(<<Get(data, "error")>>)
       ELSE Returned("unstructured",
              WithMarker(<<>>, StringifyTruncated(data), PlainMarker))

\* The parsed body: lines 568-608 of the stdio server.
ClassifyData(toolName, data) ==
  IF ~CanRead(data)
  THEN Failed(<<Str("TypeError: null is not an object (evaluating 'data.error')")>>)
  ELSE IF Truthy(Get(data, "error")) THEN Failed(<<Get(data, "error")>>)
  ELSE LET result == Get(data, "result") IN
       IF Truthy(result) /\ TypeofObject(result)
       THEN ClassifyResult(toolName, result)
       ELSE Returned("unstructured",
              WithMarker(<<>>, StringifyTruncated(data), PlainMarker))

\* The try block around the primary call, and its catch.
ClassifyResponse(toolName, resp) ==
  CASE resp.k = "throw" -> Failed(<<Str(resp.msg)>>)
    [] resp.k = "status" ->
         Failed(<<Str("HTTP "), Num(resp.status), Str(": "),
                  Excerpt(IF resp.textFails THEN "" ELSE resp.body)>>)
    [] resp.k = "ok" /\ ~resp.json ->
         Failed(<<Str("SyntaxError: JSON Parse error")>>)
    [] resp.k = "ok" /\ resp.json -> ClassifyData(toolName, resp.data)

(***************************************************************************)
(* fallbackWebSearch                                                       *)
(***************************************************************************)
\* Variant: the platform label is left out of the query.
FallbackQuery_KeywordOnly(keyword, platform) == <<keyword>>

\* platform ? `${platform} ${keyword}` : keyword
FallbackQuery(keyword, platform) ==
  IF Truthy(platform) THEN <<platform, Str(" "), keyword>> ELSE <<keyword>>

SearchCount == 5

SearchMaxChars == 5000

\* apiCall's default: timeoutMs = 28_000
ApiCallTimeoutMs == 28000

\* No signal in the request options: the request is never aborted.
NoTimeout == 0

\* The timeout of the search request: the plugin's apiCall passes
\* AbortSignal.timeout(timeoutMs), the stdio server's api passes no signal.
SearchTimeoutMs(h) == IF h = "plugin" THEN ApiCallTimeoutMs ELSE NoTimeout

\* The request api("POST", "/search", ...) sends.
SearchRequest(h, keyword, platform) ==
  [path |-> "/search", query |-> FallbackQuery(keyword, platform),
   count |-> SearchCount, enrich |-> TRUE, max_chars |-> SearchMaxChars,
   timeoutMs |-> SearchTimeoutMs(h)]

\* data.results as the loop walks it: the items of an array, the characters
\* of a string, nothing otherwise (length is undefined).
Items(results) ==
  IF results.t = "array" THEN results.a
  ELSE IF results.t = "string" THEN [i \in 1..StrLen(results.s) |-> Str("?")]
  ELSE <<>>

\* data.results.length === 0
LengthIsZero(results) ==
  \/ results.t = "array" /\ Len(results.a) = 0
  \/ results.t = "string" /\ StrLen(results.s) = 0

\* The lines pushed for result i.
ResultLines(i, r) ==
  << <<Num(i), Str(". "), Get(r, "title")>>, <<Str("   "), Get(r, "url")>> >>
  \o (IF Truthy(Get(r, "snippet")) THEN << <<Str("   "), Get(r, "snippet")>> >> ELSE <<>>)
  \o (IF Truthy(Get(r, "content"))
      THEN << <<>>, <<Str("   --- Page Content ---")>>, <<Str("   "), Get(r, "content")>> >>
      ELSE <<>>)
  \o << <<>> >>

\* Variant: only the first result is listed.
AllResultLines_FirstOnly(items, i) ==
  IF i > Len(items) THEN <<>> ELSE ResultLines(i, items[i])

RECURSIVE AllResultLines(_, _)
AllResultLines(items, i) ==
  IF i > Len(items) THEN <<>>
  ELSE ResultLines(i, items[i]) \o AllResultLines(items, i + 1)

\* "[TikHub unavailable, fell back to web search automatically]"
FallbackMarker == Str("[TikHub unavailable, fell back to web search automatically]")

\* Variant: an answer without results is rendered like any other.
fallbackWebSearch_RendersNothing(resp) ==
  IF resp.k # "ok" THEN Null
  ELSE IF ~resp.json THEN Null
  ELSE IF ~CanRead(resp.data) THEN Null
  ELSE LET results == Get(resp.data, "results") IN
       IF \E i \in 1..Len(Items(results)) : ~CanRead(Items(results)[i]) THEN Null
       ELSE [t |-> "text",
             lines |-> << <<FallbackMarker>>, <<>> >> \o AllResultLines(Items(results), 1)]

\* What fallbackWebSearch returns for the answer of the search service: null, or
\* the lines joined by "\n". The answer has the shapes of the gateway's; a
\* non-success status makes api throw.
fallbackWebSearch(resp) ==
  IF resp.k # "ok" THEN Null
  ELSE IF ~resp.json THEN Null
  ELSE IF ~CanRead(resp.data) THEN Null
  ELSE LET results == Get(resp.data, "results") IN
       IF ~Truthy(results) \/ LengthIsZero(results) THEN Null
       ELSE IF \E i \in 1..Len(Items(results)) : ~CanRead(Items(results)[i]) THEN Null
       ELSE [t |-> "text",
             lines |->
               << <<FallbackMarker>>,
                  <<Str("Search: \""), Get(resp.data, "query"), Str("\" ("),
                    IF results.t = "array" THEN Num(Len(results.a))
                    ELSE IF results.t = "string" THEN Num(StrLen(results.s))
                    ELSE Undefined,
                    Str(" results via "), Get(resp.data, "provider"), Str(")")>>,
                  <<>> >>
               \o AllResultLines(Items(results), 1)]

(***************************************************************************)
(* Inputs: tool names, raw arguments, answers of the two services          *)
(***************************************************************************)
ToolNames ==
  { <<"tiktok", "web", "fetch", "search", "video">>,
    <<"douyin", "app", "fetch", "hot", "search", "list">>,
    <<"acme", "lookup">>,
    <<"constructor", "x">> }

\* `arguments` handed in as an object
ObjectArguments ==
  { Obj(<< <<"keyword", Str("AI")>>, <<"count", Num(3)>> >>),
    Obj(<< <<"count", Num(3)>> >>),
    Obj(<< <<"query", Str("cats")>>, <<"keyword", Str("AI")>> >>),
    Obj(<< <<"keyword", Str("")>>, <<"query", Str("cats")>> >>),
    Obj(<< <<"keyword", Num(5)>>, <<"keywords", Str("k")>> >>),
    Obj(<< <<"search_keyword", Str("sk")>>, <<"keywords", Str("k")>> >>),
    Obj(<< <<"keywords", Str("k")>>, <<"query", Str("cats")>> >>),
    Obj(<<>>),
    Arr(<<Num(1)>>) }

\* `arguments` handed in as a string: "", {"keyword":"AI","count":3},
\* {"count":3}, {}, null, 5, "x", [1], {keyword:AI}, {"keyword":  and  not json
StringArguments ==
  { RawString(<<>>),
    RawString(<<LP("{"), LStr("keyword"), LP(":"), LStr("AI"), LP(","),
                LStr("count"), LP(":"), LNum(3), LP("}")>>),
    RawString(<<LP("{"), LStr("count"), LP(":"), LNum(3), LP("}")>>),
    RawString(<<LP("{"), LP("}")>>),
    RawString(<<LLit("null")>>),
    RawString(<<LNum(5)>>),
    RawString(<<LStr("x")>>),
    RawString(<<LP("["), LNum(1), LP("]")>>),
    RawString(<<LP("{"), LBare("keyword"), LP(":"), LBare("AI"), LP("}")>>),
    RawString(<<LP("{"), LStr("keyword"), LP(":")>>),
    RawString(<<LBare("not"), LBare("json")>>) }

\* `arguments` is optional
RawArguments == ObjectArguments \cup StringArguments \cup {Undefined}

\* result objects of the gateway
GatewayResults ==
  { Obj(<< <<"code", Num(200)>>, <<"data", Obj(<< <<"item_list", Arr(<<>>)>> >>)>> >>),
    Obj(<< <<"code", Num(400)>>, <<"message", Str("rate limited")>> >>),
    Obj(<< <<"code", Num(500)>>, <<"data", Arr(<<Num(1)>>)>>, <<"message", Str("")>> >>),
    Obj(<< <<"code", Num(-1)>>, <<"data", Arr(<<Num(1)>>)>> >>),
    Obj(<< <<"code", Num(0)>>, <<"data", Arr(<<Num(1)>>)>> >>),
    Obj(<< <<"code", Str("500")>>, <<"data", Arr(<<Num(1)>>)>> >>),
    Obj(<< <<"code", Num(0)>>, <<"data", Obj(<<>>)>>, <<"message", Null>>,
           <<"recordTime", Str("t")>> >>),
    Obj(<< <<"data", Arr(<<Num(1)>>)>> >>),
    Obj(<< <<"code", Num(200)>>, <<"data", Obj(<< <<"id", Num(7)>> >>)>> >>),
    Obj(<< <<"code", Num(200)>>, <<"data", Arr(<<>>)>> >>),
    Obj(<< <<"code", Num(200)>> >>),
    Obj(<< <<"code", Num(200)>>, <<"data", Null>> >>),
    Obj(<< <<"data", Obj(<<>>)>> >>),
    Obj(<<>>),
    Arr(<<>>),
    Arr(<<Num(1)>>),
    Obj(<< <<"code", Num(200)>>,
           <<"data", Obj(<< <<"code", Num(0)>>, <<"data", Obj(<<>>)>>,
                            <<"message", Null>> >>)>> >>),
    Obj(<< <<"code", Num(200)>>,
           <<"data", Obj(<< <<"code", Num(0)>>, <<"data", Obj(<<>>)>>,
                            <<"total", Num(1)>> >>)>> >>),
    Obj(<< <<"code", Num(200)>>, <<"data", Obj(<< <<"timestamp", Num(123)>> >>)>> >>),
    Obj(<< <<"code", Num(200)>>,
           <<"data", Obj(<< <<"items", Arr(<<>>)>>, <<"total", Num(5)>> >>)>> >>),
    Obj(<< <<"code", Num(200)>>, <<"data", Str(BigString)>> >>),
    Obj(<< <<"code", Num(200)>>, <<"data", Num(0)>> >>),
    Obj(<< <<"code", Num(200)>>, <<"data", Str("")>> >>) }

\* parsed bodies of the gateway
GatewayBodies ==
  { Obj(<< <<"result", r>> >>) : r \in GatewayResults }
  \cup
  { Obj(<< <<"error", Str("boom")>>,
           <<"result", Obj(<< <<"code", Num(500)>>, <<"data", Arr(<<Num(1)>>)>> >>)>> >>),
    Obj(<< <<"error", Str("")>>, <<"result", Obj(<< <<"data", Arr(<<Num(1)>>)>> >>)>> >>),
    Obj(<< <<"error", Str("denied")>>,
           <<"result", Obj(<< <<"code", Num(200)>>,
                              <<"data", Obj(<< <<"id", Num(7)>> >>)>> >>)>> >>),
    Obj(<< <<"error", Str("boom")>> >>),
    Obj(<<>>),
    Obj(<< <<"result", Null>> >>),
    Obj(<< <<"result", Str("ok")>> >>),
    Obj(<< <<"data", Arr(<<>>)>> >>),
    Obj(<< <<"data", Str(BigString)>> >>),
    Null,
    Arr(<<>>) }

GatewayResponses ==
  { [k |-> "throw", msg |-> "fetch failed"],
    [k |-> "throw", msg |-> "The operation timed out."],
    [k |-> "status", status |-> 500, body |-> "oops", textFails |-> FALSE],
    [k |-> "status", status |-> 429, body |-> LongBody, textFails |-> FALSE],
    [k |-> "status", status |-> 404, body |-> "gone", textFails |-> TRUE],
    [k |-> "ok", json |-> FALSE] }
  \cup { [k |-> "ok", json |-> TRUE, data |-> d] : d \in GatewayBodies }

\* JSON values for result.data: scalars and the two arrays,
EmptinessLeaves ==
  { Null, Bool(FALSE), Num(0), Num(123), Str(""), Str("x"),
    Arr(<<>>), Arr(<<Num(1)>>), Arr(<<Obj(<<>>)>>), Obj(<<>>) }

\* the keys of its objects: metadata keys, listing keys and others,
EmptinessKeys == {"data", "code", "msg", "items", "list", "timestamp", "total"}

\* objects of one key and of two keys over these,
EmptinessFlat ==
  { Obj(<< <<k, v>> >>) : k \in EmptinessKeys, v \in EmptinessLeaves }
  \cup
  { Obj(<< <<k[1], v>>, <<k[2], w>> >>) :
      k \in {kk \in EmptinessKeys \X EmptinessKeys : kk[1] # kk[2]},
      v \in {Null, Arr(<<>>), Obj(<<>>)},
      w \in {Arr(<<>>), Arr(<<Num(1)>>), Num(123)} }

\* and objects that wrap a one-key object as their data.
EmptinessWrapped ==
  UNION { { Obj(<< <<"data", v>> >>),
            Obj(<< <<"code", Num(0)>>, <<"data", v>>, <<"message", Null>>,
                   <<"recordTime", Str("t")>> >>),
            Obj(<< <<"data", v>>, <<"total", Num(1)>> >>),
            Arr(<<v>>) } :
          v \in { Obj(<< <<k, w>> >>) : k \in EmptinessKeys, w \in EmptinessLeaves } }

EmptinessValues == EmptinessLeaves \cup EmptinessFlat \cup EmptinessWrapped

\* Answers of the gateway whose result holds such a value as its data, or no
\* data at all.
EmptinessResponses ==
  { [k |-> "ok", json |-> TRUE,
     data |-> Obj(<< <<"result", Obj(<< <<"data", v>> >>)>> >>)] : v \in EmptinessValues }
  \cup
  { [k |-> "ok", json |-> TRUE,
     data |-> Obj(<< <<"result", Obj(<< <<"code", Num(200)>> >>)>> >>)] }

SearchHit1 ==
  Obj(<< <<"title", Str("t1")>>, <<"url", Str("u1")>>, <<"snippet", Str("s1")>> >>)

SearchHit2 ==
  Obj(<< <<"title", Str("t2")>>, <<"url", Str("u2")>>, <<"content", Str("c2")>> >>)

SearchBody(results) ==
  Obj(<< <<"query", Str("q")>>, <<"provider", Str("searxng")>>, <<"results", results>> >>)

SearchResponses ==
  { [k |-> "throw", msg |-> "fetch failed"],
    [k |-> "throw", msg |-> "The operation timed out."],
    [k |-> "status", status |-> 502, body |-> "bad gateway", textFails |-> FALSE],
    [k |-> "ok", json |-> FALSE],
    [k |-> "ok", json |-> TRUE, data |-> Null],
    [k |-> "ok", json |-> TRUE, data |-> Obj(<< <<"query", Str("q")>> >>)],
    [k |-> "ok", json |-> TRUE, data |-> SearchBody(Arr(<<>>))],
    [k |-> "ok", json |-> TRUE, data |-> SearchBody(Arr(<<SearchHit1>>))],
    [k |-> "ok", json |-> TRUE, data |-> SearchBody(Arr(<<SearchHit1, SearchHit2>>))],
    [k |-> "ok", json |-> TRUE, data |-> SearchBody(Arr(<<SearchHit1, Null>>))] }

(***************************************************************************)
(* One dispatch of tikhub_call                                             *)
(***************************************************************************)
VARIABLES
  host,          \* "mcp": the stdio server's handler; "plugin": the plugin's execute
  apiKey,        \* whether TIKHUB_API_KEY is configured (non-empty)
  toolName,      \* params.tool_name
  rawArgs,       \* params.arguments
  pc,            \* "Idle", "Calling", "Classifying", "FallingBack", "Done"
  args,          \* the normalized arguments
  keyword,       \* extractKeyword(args)
  platform,      \* extractPlatform(tool_name)
  tikhubFailed,
  failReason,
  primaryCalls,  \* requests sent to TIKHUB_URL
  primaryReq,    \* the last of them
  primaryResp,   \* what the primary call came to
  fallbackCalls, \* requests sent to /search
  fallbackReq,   \* the last of them
  fallbackResp,  \* what the search call came to
  exit,          \* the return or throw statement that ended the dispatch
  outcome,       \* what the caller gets
  inFlight,      \* the requests sent and not yet settled or aborted
  hung,          \* the remote endpoints that never respond
  cancelled,     \* the caller has cancelled the invocation
  first,         \* what an earlier dispatch with the same input came to
  other,         \* the locals of a second dispatch, suspended while this one runs
  webSearch      \* one invocation of the plugin's web_search

vars ==
  <<host, apiKey, toolName, rawArgs, pc, args, keyword, platform, tikhubFailed,
    failReason, primaryCalls, primaryReq, primaryResp, fallbackCalls, fallbackReq,
    fallbackResp, exit, outcome, inFlight, hung, cancelled, first, other,
    webSearch>>

Hosts == {"mcp", "plugin"}

None == [k |-> "none"]

NoOutcome == [via |-> "none"]

\* The two remote endpoints: TIKHUB_URL and BASE_URL/search
Endpoints == {"primary", "fallback"}

\* The plugin registers tikhub_call only `if (TIKHUB_API_KEY)`.
Registered == host = "mcp" \/ apiKey

Init ==
  /\ host \in Hosts
  /\ apiKey \in BOOLEAN
  /\ toolName \in ToolNames
  /\ rawArgs \in RawArguments
  /\ pc = "Idle"
  /\ args = Undefined
  /\ keyword = Undefined
  /\ platform = Undefined
  /\ tikhubFailed = FALSE
  /\ failReason = <<>>
  /\ primaryCalls = 0
  /\ primaryReq = None
  /\ primaryResp = None
  /\ fallbackCalls = 0
  /\ fallbackReq = None
  /\ fallbackResp = None
  /\ exit = "none"
  /\ outcome = NoOutcome
  /\ inFlight = {}
  /\ hung \in SUBSET Endpoints
  /\ cancelled = FALSE
  /\ first = None
  /\ other = None
  /\ webSearch = None

\* return {content: [{type: "text", text}], isError?}
Return(text, isError) == [via |-> "return", isError |-> isError, text |-> text]

\* throw new Error(text), or an error the runtime throws
Throw(name, text) == [via |-> "throw", name |-> name, text |-> text]

\* Variant: without the `|| "{}"`: what is no object is parsed as it is.
Normalize_NoDefault(raw) ==
  IF TypeofObject(raw) /\ raw # Null THEN [ok |-> TRUE, val |-> raw]
  ELSE JSONParse(IF raw.t = "string" THEN raw.lx ELSE <<LBare("undefined")>>)

\* Variant: a string that does not parse is taken as {}.
Normalize_Lenient(raw) ==
  IF TypeofObject(raw) /\ raw # Null THEN [ok |-> TRUE, val |-> raw]
  ELSE LET parsed == JSONParse(IF Truthy(raw) THEN raw.lx ELSE <<LP("{"), LP("}")>>) IN
       IF parsed.ok THEN parsed ELSE [ok |-> TRUE, val |-> Obj(<<>>)]

\* The arguments as a mapping: lines 516-529 of the stdio server.
Normalize(raw) ==
  IF TypeofObject(raw) /\ raw # Null THEN [ok |-> TRUE, val |-> raw]
  ELSE JSONParse(IF Truthy(raw) THEN raw.lx ELSE <<LP("{"), LP("}")>>)

InvalidArguments(h) ==
  IF h = "mcp" THEN Return(<<Str("Invalid arguments JSON string")>>, TRUE)
  ELSE Throw("Error", <<Str("Invalid arguments JSON string")>>)

\* "\nThe web search fallback failed too."
AlsoFailed == Str("\nThe web search fallback failed too.")

\* "\nThis tool has no keyword parameter, no automatic fallback to web search."
NoKeyword == Str("\nThis tool has no keyword parameter, no automatic fallback to web search.")

\* "TikHub failed: "
FailedPrefix == Str("TikHub failed: ")

\* Variant: the two closing sentences exchanged.
ErrorMsg_Swapped(h, failed, reason, kw) ==
  IF h = "mcp" /\ ~failed THEN <<Str("Unknown error")>>
  ELSE <<FailedPrefix>> \o reason \o <<IF Truthy(kw) THEN NoKeyword ELSE AlsoFailed>>

\* The message of lines 630-632 (stdio server) and 686-688 (plugin).
ErrorMsg(h, failed, reason, kw) ==
  IF h = "mcp" /\ ~failed THEN <<Str("Unknown error")>>
  ELSE <<FailedPrefix>> \o reason \o <<IF Truthy(kw) THEN AlsoFailed ELSE NoKeyword>>

\* Both failed or no keyword to fall back with.
Fatal(h, failed, reason, kw) ==
  IF h = "mcp" THEN Return(ErrorMsg(h, failed, reason, kw), TRUE)
  ELSE Throw("Error", ErrorMsg(h, failed, reason, kw))

\* Variant: the keyword is not asked for.
FallsBack_IgnoresKeyword(failed, kw) == failed

\* if (tikhubFailed && keyword)
FallsBack(failed, kw) == failed /\ Truthy(kw)

\* From the classification on, up to the next await or the end: the search
\* request is sent, or the dispatch ends with the error.
AfterPrimary(failed, reason, kw, plat) ==
  IF FallsBack(failed, kw)
  THEN /\ pc' = "FallingBack"
       /\ fallbackCalls' = fallbackCalls + 1
       /\ fallbackReq' = SearchRequest(host, kw, plat)
       /\ inFlight' = inFlight \cup {"fallback"}
       /\ UNCHANGED <<exit, outcome>>
  ELSE /\ pc' = "Done"
       /\ exit' = "error"
       /\ outcome' = Fatal(host, failed, reason, kw)
       /\ UNCHANGED <<fallbackCalls, fallbackReq, inFlight>>

\* Variant: the test of the key inverted.
NoApiKey_Inverted(h, key) == h = "mcp" /\ key

\* if (!TIKHUB_API_KEY), which only the stdio server asks
NoApiKey(h, key) == h = "mcp" /\ ~key

PrimaryTimeoutMs == 25000

\* fetch(TIKHUB_URL, ...)
PrimaryRequest(tool, a) ==
  [url |-> "TIKHUB_URL", tool_name |-> tool, arguments |-> a,
   timeoutMs |-> PrimaryTimeoutMs]

\* The handler up to its first await: the arguments are normalized, the keyword
\* and the platform extracted, and the request to the gateway is sent; without
\* an API key the stdio server goes straight on to the fallback.
Dispatch ==
  /\ pc = "Idle"
  /\ Registered
  /\ LET norm == Normalize(rawArgs) IN
     IF ~norm.ok
     THEN /\ pc' = "Done"
          /\ exit' = "invalid_arguments"
          /\ outcome' = InvalidArguments(host)
          /\ UNCHANGED <<args, keyword, platform, tikhubFailed, failReason,
                         primaryCalls, primaryReq, fallbackCalls, fallbackReq,
                         inFlight>>
     ELSE IF ~CanRead(norm.val)
     THEN \* extractKeyword reads args[key]
          /\ args' = norm.val
          /\ pc' = "Done"
          /\ exit' = "uncaught"
          /\ outcome' = Throw("TypeError",
               <<Str("Cannot read properties of null (reading 'keyword')")>>)
          /\ UNCHANGED <<keyword, platform, tikhubFailed, failReason,
                         primaryCalls, primaryReq, fallbackCalls, fallbackReq,
                         inFlight>>
     ELSE /\ args' = norm.val
          /\ keyword' = extractKeyword(norm.val)
          /\ platform' = extractPlatform(toolName)
          /\ IF NoApiKey(host, apiKey)
             THEN /\ tikhubFailed' = TRUE
                  /\ failReason' = <<Str("API key not configured")>>
                  /\ AfterPrimary(TRUE, failReason', keyword', platform')
                  /\ UNCHANGED <<primaryCalls, primaryReq>>
             ELSE /\ pc' = "Calling"
                  /\ primaryCalls' = primaryCalls + 1
                  /\ primaryReq' = PrimaryRequest(toolName, norm.val)
                  /\ inFlight' = inFlight \cup {"primary"}
                  /\ UNCHANGED <<tikhubFailed, failReason, fallbackCalls,
                                 fallbackReq, exit, outcome>>
  /\ UNCHANGED <<host, apiKey, hung, cancelled, first, other, webSearch,
                 toolName, rawArgs,
                 primaryResp, fallbackResp>>

\* AbortSignal.timeout(ms) fires: the fetch is aborted and rejects.
TimedOut == [k |-> "throw", msg |-> "The operation timed out."]

\* What an awaited request can come to. An endpoint that never responds leaves
\* the timeout, if the request has one, and nothing otherwise; a repeated
\* dispatch meets the answers the earlier one met.
Settlements(endpoint, req, responses, earlier) ==
  IF endpoint \in hung
  THEN IF req.timeoutMs > NoTimeout THEN {TimedOut} ELSE {}
  ELSE IF first # None /\ earlier # None THEN {earlier}
  ELSE responses

\* Variant: the settled primary request is still counted as pending.
PrimaryResponds_LeavesPending ==
  /\ pc = "Calling"
  /\ \E r \in Settlements("primary", primaryReq, GatewayResponses,
                          IF first # None THEN first.primaryResp ELSE None) :
       primaryResp' = r
  /\ pc' = "Classifying"
  /\ UNCHANGED <<host, apiKey, hung, cancelled, first, other, webSearch,
                 toolName, rawArgs, args,
                 keyword, platform, tikhubFailed, failReason, primaryCalls,
                 primaryReq, fallbackCalls, fallbackReq, fallbackResp, exit,
                 outcome, inFlight>>

\* The awaited primary call settles: the gateway answers, or the call fails.
PrimaryResponds ==
  /\ pc = "Calling"
  /\ \E r \in Settlements("primary", primaryReq, GatewayResponses,
                          IF first # None THEN first.primaryResp ELSE None) :
       primaryResp' = r
  /\ inFlight' = inFlight \ {"primary"}
  /\ pc' = "Classifying"
  /\ UNCHANGED <<host, apiKey, hung, cancelled, first, other, webSearch,
                 toolName, rawArgs, args,
                 keyword, platform, tikhubFailed, failReason, primaryCalls,
                 primaryReq, fallbackCalls, fallbackReq, fallbackResp, exit,
                 outcome>>

\* Variant: a failure is remembered across calls; once a dispatch has failed,
\* the next one is failed without a look at the answer.
Classify_RemembersFailure ==
  /\ pc = "Classifying"
  /\ LET c == IF first # None /\ first.tikhubFailed
              THEN Failed(<<Str("TikHub unavailable (earlier failure)")>>)
              ELSE ClassifyResponse(toolName, primaryResp) IN
     IF c.failed
     THEN /\ tikhubFailed' = TRUE
          /\ failReason' = c.reason
          /\ AfterPrimary(TRUE, c.reason, keyword, platform)
     ELSE /\ pc' = "Done"
          /\ exit' = c.exit
          /\ outcome' = Return(c.text, FALSE)
          /\ UNCHANGED <<tikhubFailed, failReason, fallbackCalls, fallbackReq,
                         inFlight>>
  /\ UNCHANGED <<host, apiKey, hung, cancelled, first, other, webSearch,
                 toolName, rawArgs, args,
                 keyword, platform, primaryCalls, primaryReq, primaryResp,
                 fallbackResp>>

\* The answer is classified: the dispatch returns the result, or it has failed
\* and goes on to the fallback.
Classify ==
  /\ pc = "Classifying"
  /\ LET c == ClassifyResponse(toolName, primaryResp) IN
     IF c.failed
     THEN /\ tikhubFailed' = TRUE
          /\ failReason' = c.reason
          /\ AfterPrimary(TRUE, c.reason, keyword, platform)
     ELSE /\ pc' = "Done"
          /\ exit' = c.exit
          /\ outcome' = Return(c.text, FALSE)
          /\ UNCHANGED <<tikhubFailed, failReason, fallbackCalls, fallbackReq,
                         inFlight>>
  /\ UNCHANGED <<host, apiKey, hung, cancelled, first, other, webSearch,
                 toolName, rawArgs, args,
                 keyword, platform, primaryCalls, primaryReq, primaryResp,
                 fallbackResp>>

\* "TikHub failed (<reason>), fell back to web search automatically:\n\n<result>"
FallbackText(reason, result) ==
  <<Str("TikHub failed (")>> \o reason
    \o <<Str("), fell back to web search automatically:\n\n"), result>>

\* The awaited fallbackWebSearch settles.
FallbackResponds ==
  /\ pc = "FallingBack"
  /\ \E r \in Settlements("fallback", fallbackReq, SearchResponses,
                          IF first # None THEN first.fallbackResp ELSE None) :
       /\ fallbackResp' = r
       /\ LET fallbackResult == fallbackWebSearch(r) IN
          IF Truthy(fallbackResult)
          THEN /\ exit' = "fallback"
               /\ outcome' = Return(FallbackText(failReason, fallbackResult), FALSE)
          ELSE /\ exit' = "error"
               /\ outcome' = Fatal(host, tikhubFailed, failReason, keyword)
  /\ inFlight' = inFlight \ {"fallback"}
  /\ pc' = "Done"
  /\ UNCHANGED <<host, apiKey, hung, cancelled, first, other, webSearch,
                 toolName, rawArgs, args,
                 keyword, platform, tikhubFailed, failReason, primaryCalls,
                 primaryReq, primaryResp, fallbackCalls, fallbackReq>>

\* The caller cancels the invocation while a request is awaited. Neither
\* handler takes the caller's signal (async (params) => ..., execute(_id,
\* params)) and the only signal a request gets is AbortSignal.timeout: the
\* request stays as it is and the handler goes on.
Cancel ==
  /\ pc \in {"Calling", "FallingBack"}
  /\ ~cancelled
  /\ cancelled' = TRUE
  /\ UNCHANGED <<host, apiKey, hung, first, other, webSearch,
                 toolName, rawArgs, pc, args,
                 keyword,
                 platform, tikhubFailed, failReason, primaryCalls, primaryReq,
                 primaryResp, fallbackCalls, fallbackReq, fallbackResp, exit,
                 outcome, inFlight>>

Next == Dispatch \/ PrimaryResponds \/ Classify \/ FallbackResponds \/ Cancel

Spec == Init /\ [][Next]_vars

\* The event loop runs a handler that can go on: a request that is answered or
\* that has a timeout settles, and the code after an await runs.
FairSpec ==
  Spec /\ WF_vars(PrimaryResponds) /\ WF_vars(Classify) /\ WF_vars(FallbackResponds)

\* What a finished dispatch leaves for the comparison with its repetition.
Summary ==
  [primaryResp |-> primaryResp, fallbackResp |-> fallbackResp,
   tikhubFailed |-> tikhubFailed, failReason |-> failReason,
   fellBack |-> fallbackCalls > 0, exit |-> exit, outcome |-> outcome,
   host |-> host, query |-> IF fallbackReq = None THEN <<>> ELSE fallbackReq.query]

\* The tool is called once more with the same tool_name and arguments. All the
\* handler works on is local to the call (let args, const keyword, const
\* platform, let tikhubFailed = false, let failReason = ""); the module keeps
\* constants only.
Redispatch ==
  /\ pc = "Done"
  /\ first = None
  /\ first' = Summary
  /\ pc' = "Idle"
  /\ args' = Undefined
  /\ keyword' = Undefined
  /\ platform' = Undefined
  /\ tikhubFailed' = FALSE
  /\ failReason' = <<>>
  /\ primaryCalls' = 0
  /\ primaryReq' = None
  /\ primaryResp' = None
  /\ fallbackCalls' = 0
  /\ fallbackReq' = None
  /\ fallbackResp' = None
  /\ exit' = "none"
  /\ outcome' = NoOutcome
  /\ cancelled' = FALSE
  /\ UNCHANGED <<host, apiKey, hung, other, webSearch, toolName, rawArgs, inFlight>>

NextTwice == Next \/ Redispatch

\* The same tool_name and arguments are handed to the tikhub_call of the other
\* host, which has the same TikHub key and meets the same remote services.
Rehost ==
  /\ pc = "Done"
  /\ first = None
  /\ apiKey
  /\ first' = Summary
  /\ host' = IF host = "mcp" THEN "plugin" ELSE "mcp"
  /\ pc' = "Idle"
  /\ args' = Undefined
  /\ keyword' = Undefined
  /\ platform' = Undefined
  /\ tikhubFailed' = FALSE
  /\ failReason' = <<>>
  /\ primaryCalls' = 0
  /\ primaryReq' = None
  /\ primaryResp' = None
  /\ fallbackCalls' = 0
  /\ fallbackReq' = None
  /\ fallbackResp' = None
  /\ exit' = "none"
  /\ outcome' = NoOutcome
  /\ cancelled' = FALSE
  /\ UNCHANGED <<apiKey, hung, other, webSearch, toolName, rawArgs, inFlight>>

NextBothHosts == Next \/ Rehost

\* A dispatch on one host and the same dispatch on the other.
BothHostsSpec == Init /\ [][NextBothHosts]_vars

\* The awaited primary call settles with an answer out of EmptinessResponses.
PrimaryRespondsWithData ==
  /\ pc = "Calling"
  /\ \E r \in EmptinessResponses : primaryResp' = r
  /\ inFlight' = inFlight \ {"primary"}
  /\ pc' = "Classifying"
  /\ UNCHANGED <<host, apiKey, hung, cancelled, first, other, webSearch,
                 toolName, rawArgs, args,
                 keyword, platform, tikhubFailed, failReason, primaryCalls,
                 primaryReq, fallbackCalls, fallbackReq, fallbackResp, exit,
                 outcome>>

\* Dispatches of one tool with a key configured and endpoints that respond.
InitWithData ==
  /\ Init
  /\ apiKey
  /\ hung = {}
  /\ toolName = <<"tiktok", "web", "fetch", "search", "video">>
  /\ rawArgs \in { Obj(<< <<"keyword", Str("AI")>>, <<"count", Num(3)>> >>),
                   Obj(<< <<"count", Num(3)>> >>) }

NextWithData == Dispatch \/ PrimaryRespondsWithData \/ Classify \/ FallbackResponds

\* The classifier put to every value of EmptinessValues as result.data.
EmptinessSpec == InitWithData /\ [][NextWithData]_vars

\* A dispatch and its repetition against remote services that answer the same.
TwiceSpec == Init /\ [][NextTwice]_vars

\* What one run of the handler holds between its awaits: its parameters, the
\* let and const of its body, and the requests it waits for.
Locals ==
  [toolName |-> toolName, rawArgs |-> rawArgs, pc |-> pc, args |-> args,
   keyword |-> keyword, platform |-> platform, tikhubFailed |-> tikhubFailed,
   failReason |-> failReason, primaryCalls |-> primaryCalls,
   primaryReq |-> primaryReq, primaryResp |-> primaryResp,
   fallbackCalls |-> fallbackCalls, fallbackReq |-> fallbackReq,
   fallbackResp |-> fallbackResp, exit |-> exit, outcome |-> outcome,
   inFlight |-> inFlight, cancelled |-> cancelled]

\* Variant: tikhubFailed and failReason declared at module level, one pair for
\* every run of the handler.
Switch_SharedFailure ==
  /\ other # None
  /\ pc # "Classifying"
  /\ other' = Locals
  /\ toolName' = other.toolName
  /\ rawArgs' = other.rawArgs
  /\ pc' = other.pc
  /\ args' = other.args
  /\ keyword' = other.keyword
  /\ platform' = other.platform
  /\ primaryCalls' = other.primaryCalls
  /\ primaryReq' = other.primaryReq
  /\ primaryResp' = other.primaryResp
  /\ fallbackCalls' = other.fallbackCalls
  /\ fallbackReq' = other.fallbackReq
  /\ fallbackResp' = other.fallbackResp
  /\ exit' = other.exit
  /\ outcome' = other.outcome
  /\ inFlight' = other.inFlight
  /\ cancelled' = other.cancelled
  /\ UNCHANGED <<host, apiKey, hung, first, webSearch, tikhubFailed, failReason>>

\* The event loop passes from one run of the handler to another one: a run is
\* left only at an await (or before its start, or after its end), never between
\* the answer and its classification, which is synchronous code. Each run finds
\* its own parameters and locals again; the module holds constants only.
Switch ==
  /\ other # None
  /\ pc # "Classifying"
  /\ other' = Locals
  /\ toolName' = other.toolName
  /\ rawArgs' = other.rawArgs
  /\ pc' = other.pc
  /\ args' = other.args
  /\ keyword' = other.keyword
  /\ platform' = other.platform
  /\ tikhubFailed' = other.tikhubFailed
  /\ failReason' = other.failReason
  /\ primaryCalls' = other.primaryCalls
  /\ primaryReq' = other.primaryReq
  /\ primaryResp' = other.primaryResp
  /\ fallbackCalls' = other.fallbackCalls
  /\ fallbackReq' = other.fallbackReq
  /\ fallbackResp' = other.fallbackResp
  /\ exit' = other.exit
  /\ outcome' = other.outcome
  /\ inFlight' = other.inFlight
  /\ cancelled' = other.cancelled
  /\ UNCHANGED <<host, apiKey, hung, first, webSearch>>

\* Two invocations of tikhub_call have arrived, for two tools; none has run yet.
ConcurrentInit ==
  /\ host \in Hosts
  /\ apiKey = TRUE
  /\ hung = {}
  /\ first = None
  /\ toolName = <<"tiktok", "web", "fetch", "search", "video">>
  /\ rawArgs \in { Obj(<< <<"keyword", Str("AI")>>, <<"count", Num(3)>> >>),
                   Obj(<< <<"count", Num(3)>> >>) }
  /\ pc = "Idle"
  /\ args = Undefined
  /\ keyword = Undefined
  /\ platform = Undefined
  /\ tikhubFailed = FALSE
  /\ failReason = <<>>
  /\ primaryCalls = 0
  /\ primaryReq = None
  /\ primaryResp = None
  /\ fallbackCalls = 0
  /\ fallbackReq = None
  /\ fallbackResp = None
  /\ exit = "none"
  /\ outcome = NoOutcome
  /\ inFlight = {}
  /\ cancelled = FALSE
  /\ other = [toolName |-> <<"douyin", "app", "fetch", "hot", "search", "list">>,
              rawArgs |-> Obj(<< <<"query", Str("cats")>> >>),
              pc |-> "Idle", args |-> Undefined, keyword |-> Undefined,
              platform |-> Undefined, tikhubFailed |-> FALSE, failReason |-> <<>>,
              primaryCalls |-> 0, primaryReq |-> None, primaryResp |-> None,
              fallbackCalls |-> 0, fallbackReq |-> None, fallbackResp |-> None,
              exit |-> "none", outcome |-> NoOutcome, inFlight |-> {},
              cancelled |-> FALSE]
  /\ webSearch = None

NextConcurrent == Dispatch \/ PrimaryResponds \/ Classify \/ FallbackResponds \/ Switch

\* Two dispatches in one process, interleaved at their awaits.
ConcurrentSpec == ConcurrentInit /\ [][NextConcurrent]_vars

(***************************************************************************)
(* One invocation of the plugin's web_search                               *)
(***************************************************************************)
\* Messages are texts: sequences of characters.

\* text.includes(sub)
Includes(text, sub) ==
  \E i \in 1..(Len(text) - Len(sub) + 1) : SubSeq(text, i, i + Len(sub) - 1) = sub

\* "TimeoutError"
TimeoutErrorWord ==
  <<"T", "i", "m", "e", "o", "u", "t", "E", "r", "r", "o", "r">>

\* "abort"
AbortWord ==
  <<"a", "b", "o", "r", "t">>

\* "Search failed: "
SearchFailedPrefix ==
  <<"S", "e", "a", "r", "c", "h", " ", "f", "a", "i", "l", "e", "d", ":",
    " ">>

\* The message of the error that AbortSignal.timeout raises in fetch: that of
\* Node's runtime,
AbortedDueToTimeout ==
  <<"T", "h", "e", " ", "o", "p", "e", "r", "a", "t", "i", "o", "n", " ",
    "w", "a", "s", " ", "a", "b", "o", "r", "t", "e", "d", " ", "d", "u",
    "e", " ", "t", "o", " ", "t", "i", "m", "e", "o", "u", "t">>

\* and that of Bun's.
OperationTimedOut ==
  <<"T", "h", "e", " ", "o", "p", "e", "r", "a", "t", "i", "o", "n", " ",
    "t", "i", "m", "e", "d", " ", "o", "u", "t", ".">>

\* The message of fetch when the connection fails.
FetchFailed ==
  <<"f", "e", "t", "c", "h", " ", "f", "a", "i", "l", "e", "d">>

\* The message of res.json() for a body that is no JSON.
NotJSON ==
  <<"U", "n", "e", "x", "p", "e", "c", "t", "e", "d", " ", "e", "n", "d",
    " ", "o", "f", " ", "J", "S", "O", "N", " ", "i", "n", "p", "u", "t">>

\* The message of the TypeError for a property read on null or undefined.
CannotRead ==
  <<"C", "a", "n", "n", "o", "t", " ", "r", "e", "a", "d", " ", "p", "r",
    "o", "p", "e", "r", "t", "i", "e", "s", " ", "o", "f", " ", "u", "n",
    "d", "e", "f", "i", "n", "e", "d">>

\* `${method} ${path} -> ${res.status}: ${text}`, the arrow written in ASCII
HttpErrorText(status, text) ==
  <<"P", "O", "S", "T", " ", "/", "s", "e", "a", "r", "c", "h", " ", "-",
    ">", " ">>
  \o status \o <<":", " ">> \o text

\* What the search service can answer to a POST /search of web_search.
WebSearchAnswers ==
  { [k |-> "throw", text |-> FetchFailed],
    [k |-> "throw", text |-> AbortedDueToTimeout],
    [k |-> "throw", text |-> OperationTimedOut],
    [k |-> "status", status |-> <<"5", "0", "2">>,
     text |-> <<"b", "a", "d", " ", "g", "a", "t", "e", "w", "a", "y">>],
    [k |-> "status", status |-> <<"5", "0", "4">>,
     text |-> <<"u", "p", "s", "t", "r", "e", "a", "m", " ", "a", "b", "o", "r", "t",
                "e", "d">>],
    [k |-> "ok", json |-> FALSE],
    [k |-> "ok", json |-> TRUE, data |-> Null],
    [k |-> "ok", json |-> TRUE, data |-> Obj(<< <<"query", Str("q")>> >>)],
    [k |-> "ok", json |-> TRUE, data |-> SearchBody(Arr(<<>>))],
    [k |-> "ok", json |-> TRUE, data |-> SearchBody(Arr(<<SearchHit1, SearchHit2>>))],
    [k |-> "ok", json |-> TRUE, data |-> SearchBody(Arr(<<SearchHit1, Null>>))] }

\* The answers a request gets: an endpoint that never responds leaves the
\* timeout of apiCall, with the message of the runtime.
WebSearchSettlements ==
  IF "fallback" \in hung
  THEN { [k |-> "throw", text |-> AbortedDueToTimeout],
         [k |-> "throw", text |-> OperationTimedOut] }
  ELSE WebSearchAnswers

\* The parameters of web_search that the model varies; provider, render and
\* concurrency are copied into the body like max_chars.
WebSearchParams ==
  { Obj(<< <<"query", Str("q")>> >> \o count \o enrich \o maxChars) :
      count \in { <<>>, << <<"count", Num(0)>> >>, << <<"count", Num(3)>> >> },
      enrich \in { <<>>, << <<"enrich", Bool(FALSE)>> >>, << <<"enrich", Bool(TRUE)>> >> },
      maxChars \in { <<>>, << <<"max_chars", Num(8000)>> >> } }

\* The keys copied from params into the body when they are not undefined.
OptionalKeys == <<"count", "enrich", "max_chars", "provider", "render", "concurrency">>

\* const body = { query: params.query }; if (params.k !== undefined) body.k = params.k
SearchBodyOf(params) ==
  LET Given(k) == Get(params, k) # Undefined
      Pair(k) == <<k, Get(params, k)>>
      picked == SelectSeq(OptionalKeys, Given) IN
  Obj(<< <<"query", Get(params, "query")>> >> \o [i \in 1..Len(picked) |-> Pair(picked[i])])

RetryTimeoutMs == 10000

DefaultCount == 5

\* const fallbackBody = { query, count: params.count || 5, enrich: false }
RetryBodyOf(params) ==
  Obj(<< <<"query", Get(params, "query")>>,
         <<"count", IF Truthy(Get(params, "count")) THEN Get(params, "count")
                    ELSE Num(DefaultCount)>>,
         <<"enrich", Bool(FALSE)>> >>)

\* apiCall("POST", "/search", body, timeoutMs)
ApiCall(body, timeoutMs) ==
  [method |-> "POST", path |-> "/search", body |-> body, timeoutMs |-> timeoutMs]

\* What the try block comes to for an answer: [ok |-> TRUE], or the message of
\* what was thrown, by apiCall or by the lines that render the data.
TryBlock(resp) ==
  IF resp.k = "throw" THEN [ok |-> FALSE, msg |-> resp.text]
  ELSE IF resp.k = "status" THEN [ok |-> FALSE, msg |-> HttpErrorText(resp.status, resp.text)]
  ELSE IF ~resp.json THEN [ok |-> FALSE, msg |-> NotJSON]
  ELSE IF ~CanRead(resp.data) THEN [ok |-> FALSE, msg |-> CannotRead]
  ELSE LET results == Get(resp.data, "results") IN
       IF ~CanRead(results) THEN [ok |-> FALSE, msg |-> CannotRead]
       ELSE IF \E i \in 1..Len(Items(results)) : ~CanRead(Items(results)[i])
       THEN [ok |-> FALSE, msg |-> CannotRead]
       ELSE [ok |-> TRUE]

\* `Search: "${data.query}" (${data.results.length} results via ${data.provider})`
SearchHeader(data) ==
  LET results == Get(data, "results") IN
  <<Str("Search: \""), Get(data, "query"), Str("\" ("),
    IF results.t = "array" THEN Num(Len(results.a))
    ELSE IF results.t = "string" THEN Num(StrLen(results.s))
    ELSE Undefined,
    Str(" results via "), Get(data, "provider"), Str(")")>>

\* The lines of result i in the first rendering,
WebSearchLines(i, r) ==
  << <<Num(i), Str(". "), Get(r, "title")>>, <<Str("   "), Get(r, "url")>> >>
  \o (IF Truthy(Get(r, "snippet")) THEN << <<Str("   "), Get(r, "snippet")>> >> ELSE <<>>)
  \o (IF Truthy(Get(r, "content"))
      THEN << <<>>, <<Str("   --- Page Content ---")>>, <<Str("   "), Get(r, "content")>> >>
      ELSE <<>>)
  \o (IF Truthy(Get(r, "fetch_error"))
      THEN << <<Str("   [Fetch error: "), Get(r, "fetch_error"), Str("]")>> >> ELSE <<>>)
  \o << <<>> >>

\* and in the rendering of the retry, which has no page content.
RetryLines(i, r) ==
  << <<Num(i), Str(". "), Get(r, "title")>>, <<Str("   "), Get(r, "url")>> >>
  \o (IF Truthy(Get(r, "snippet")) THEN << <<Str("   "), Get(r, "snippet")>> >> ELSE <<>>)
  \o << <<>> >>

\* "[Enrich timed out - returning search results without full text]"
EnrichTimedOut == Str("[Enrich timed out - returning search results without full text]")

\* The text returned for the answer to the first request: the lines pushed,
\* which lines.join("\n") puts together,
WebSearchText(data) ==
  LET items == Items(Get(data, "results"))
      rest[i \in 1..(Len(items) + 1)] ==
        IF i > Len(items) THEN <<>> ELSE WebSearchLines(i, items[i]) \o rest[i + 1] IN
  << SearchHeader(data), <<>> >> \o rest[1]

\* and for the answer to the second one.
RetryText(data) ==
  LET items == Items(Get(data, "results"))
      rest[i \in 1..(Len(items) + 1)] ==
        IF i > Len(items) THEN <<>> ELSE RetryLines(i, items[i]) \o rest[i + 1] IN
  << <<EnrichTimedOut>>, SearchHeader(data), <<>> >> \o rest[1]

\* Variant: a timeout is retried whether or not enrich was asked for.
ShouldRetry_WithoutEnrich(params, msg) ==
  Includes(msg, TimeoutErrorWord) \/ Includes(msg, AbortWord)

\* if (params.enrich && (msg.includes("TimeoutError") || msg.includes("abort")))
ShouldRetry(params, msg) ==
  /\ Truthy(Get(params, "enrich"))
  /\ Includes(msg, TimeoutErrorWord) \/ Includes(msg, AbortWord)

\* throw new Error(`Search failed: ${msg}`)
SearchFailed(msg) == Throw("Error", SearchFailedPrefix \o msg)

\* The variables of tikhub_call, which web_search leaves alone.
dispatchVars ==
  <<host, apiKey, toolName, rawArgs, pc, args, keyword, platform, tikhubFailed,
    failReason, primaryCalls, primaryReq, primaryResp, fallbackCalls, fallbackReq,
    fallbackResp, exit, outcome, inFlight, hung, cancelled, first, other>>

\* execute(_id, params) up to its first await: the body is built and sent.
WebSearchExecute ==
  /\ webSearch # None
  /\ webSearch.pc = "Idle"
  /\ webSearch' = [webSearch EXCEPT
       !.pc = "Searching",
       !.requests = <<ApiCall(SearchBodyOf(webSearch.params), ApiCallTimeoutMs)>>]
  /\ UNCHANGED dispatchVars

\* The first request settles: the results are returned, or the catch block
\* sends the request without enrich, or it throws.
WebSearchSettles ==
  /\ webSearch # None
  /\ webSearch.pc = "Searching"
  /\ \E r \in WebSearchSettlements :
       LET t == TryBlock(r) IN
       IF t.ok
       THEN webSearch' = [webSearch EXCEPT
              !.pc = "Done",
              !.answers = Append(@, r),
              !.outcome = Return(WebSearchText(r.data), FALSE)]
       ELSE IF ShouldRetry(webSearch.params, t.msg)
       THEN webSearch' = [webSearch EXCEPT
              !.pc = "Retrying",
              !.answers = Append(@, r),
              !.msg = t.msg,
              !.requests = Append(@, ApiCall(RetryBodyOf(webSearch.params),
                                             RetryTimeoutMs))]
       ELSE webSearch' = [webSearch EXCEPT
              !.pc = "Done",
              !.answers = Append(@, r),
              !.msg = t.msg,
              !.outcome = SearchFailed(t.msg)]
  /\ UNCHANGED dispatchVars

\* The second request settles: its results are returned under the notice, or
\* the empty catch falls through to the throw of the first message.
WebSearchRetrySettles ==
  /\ webSearch # None
  /\ webSearch.pc = "Retrying"
  /\ \E r \in WebSearchSettlements :
       IF TryBlock(r).ok
       THEN webSearch' = [webSearch EXCEPT
              !.pc = "Done",
              !.answers = Append(@, r),
              !.outcome = Return(RetryText(r.data), FALSE)]
       ELSE webSearch' = [webSearch EXCEPT
              !.pc = "Done",
              !.answers = Append(@, r),
              !.outcome = SearchFailed(webSearch.msg)]
  /\ UNCHANGED dispatchVars

\* The plugin is loaded and web_search is invoked; tikhub_call is not.
WebSearchInit ==
  /\ host = "plugin"
  /\ apiKey \in BOOLEAN
  /\ hung \in SUBSET {"fallback"}
  /\ first = None
  /\ other = None
  /\ toolName = <<"acme", "lookup">>
  /\ rawArgs = Undefined
  /\ pc = "Idle"
  /\ args = Undefined
  /\ keyword = Undefined
  /\ platform = Undefined
  /\ tikhubFailed = FALSE
  /\ failReason = <<>>
  /\ primaryCalls = 0
  /\ primaryReq = None
  /\ primaryResp = None
  /\ fallbackCalls = 0
  /\ fallbackReq = None
  /\ fallbackResp = None
  /\ exit = "none"
  /\ outcome = NoOutcome
  /\ inFlight = {}
  /\ cancelled = FALSE
  /\ \E p \in WebSearchParams :
       webSearch = [pc |-> "Idle", params |-> p, requests |-> <<>>, answers |-> <<>>,
                    msg |-> <<>>, outcome |-> NoOutcome]

NextWebSearch == WebSearchExecute \/ WebSearchSettles \/ WebSearchRetrySettles

\* Invocations of web_search, one at a time.
WebSearchSpec == WebSearchInit /\ [][NextWebSearch]_vars

(***************************************************************************)
(* Properties                                                              *)
(***************************************************************************)
\* part is one of the parts of text
Contains(text, part) == \E i \in 1..Len(text) : text[i] = part

\* sub is a run of consecutive parts of text
ContainsSeq(text, sub) ==
  \E i \in 1..(Len(text) - Len(sub) + 1) : SubSeq(text, i, i + Len(sub) - 1) = sub

\* The arguments hold a non-empty string under one of the four keyword keys.
KeywordExists(a) ==
  a.t = "object" /\ \E i \in 1..Len(KeywordKeys) : NonEmptyString(Get(a, KeywordKeys[i]))

\* The primary call's answer has been classified.
Classified == pc \in {"FallingBack", "Done"} /\ primaryResp # None

\* The gateway answered with a parsed body that is a mapping and carries no
\* (truthy) top-level error.
CleanBody ==
  /\ primaryResp.k = "ok"
  /\ primaryResp.json
  /\ primaryResp.data.t = "object"
  /\ ~Truthy(Get(primaryResp.data, "error"))

\* data.result of the answer, undefined when there is none
ResultOf(resp) == Get(resp.data, "result")

\* result.code and result.data of the answer, undefined (absent) when result
\* is absent or is no object
CodeOf(resp) == Get(ResultOf(resp), "code")

DataOf(resp) == Get(ResultOf(resp), "data")

\* The dispatch ended by returning the gateway's data.
PrimarySuccess == pc = "Done" /\ exit \in {"success", "unstructured"}

----------------------------------------------------------------------------
\* C1: the fallback search request is issued if and only if the primary call
\* was classified as Failure and the normalized arguments hold a keyword: it
\* is never issued without both, and a dispatch that has both has issued it
\* by the time it ends.
C1_FallbackIffFailedAndKeyword ==
  /\ fallbackCalls > 0 => tikhubFailed /\ KeywordExists(args)
  /\ PrimarySuccess => fallbackCalls = 0
  /\ pc = "Done" /\ tikhubFailed /\ KeywordExists(args) => fallbackCalls = 1

C1_Witness ==
  /\ pc = "Done" /\ primaryCalls = 1 /\ tikhubFailed
  /\ KeywordExists(args) /\ fallbackCalls = 1

----------------------------------------------------------------------------
\* C2 as claimed: whenever the fallback call has been issued, a primary call
\* was issued before and its outcome classified as failed; the fallback is
\* never issued when the primary call succeeded.
C2_FallbackAfterPrimaryCall ==
  /\ fallbackCalls > 0 => primaryCalls > 0 /\ primaryResp # None /\ tikhubFailed
  /\ PrimarySuccess => fallbackCalls = 0

\* C2 as amended: whenever the fallback call has been issued, the primary
\* attempt was classified as failed before: either a primary call was issued
\* and its outcome classified, or the stdio server has no API key and has
\* classified the attempt as failed without issuing a call; the fallback is
\* never issued when the primary call succeeded.
C2_FallbackAfterClassification ==
  /\ fallbackCalls > 0 =>
       /\ tikhubFailed
       /\ \/ primaryCalls = 1 /\ primaryResp # None
          \/ /\ host = "mcp" /\ ~apiKey /\ primaryCalls = 0
             /\ failReason = <<Str("API key not configured")>>
  /\ PrimarySuccess => fallbackCalls = 0

C2_Witness ==
  /\ pc = "FallingBack" /\ fallbackCalls = 1
  /\ primaryCalls = 1 /\ primaryResp # None /\ tikhubFailed

----------------------------------------------------------------------------
\* C3: a dispatch ends with the gateway's result, the fallback's result, the
\* error that carries the primary failure reason and the fallback
\* disposition, or the malformed-arguments error, and with nothing else: no
\* error thrown by the runtime reaches the caller.
C3_OnlyContractOutcomes ==
  pc = "Done" =>
    /\ exit \in {"success", "unstructured", "fallback", "error", "invalid_arguments"}
    /\ outcome.via = "throw" => outcome.name = "Error"
    /\ exit = "error" =>
         /\ ContainsSeq(outcome.text, failReason)
         /\ Contains(outcome.text, AlsoFailed) \/ Contains(outcome.text, NoKeyword)

----------------------------------------------------------------------------
\* C4 as claimed: every answer whose result.code is a number other than 200
\* (0 and negative numbers included) is classified as Failure with a reason
\* that contains the code.
C4_EveryNon200CodeFails ==
  /\ Classified
  /\ primaryResp.k = "ok" /\ primaryResp.json /\ CanRead(primaryResp.data)
  /\ CodeOf(primaryResp).t = "number" /\ CodeOf(primaryResp) # Num(200)
  => tikhubFailed /\ Contains(failReason, CodeOf(primaryResp))

\* C4 as amended: every successfully transported answer with no top-level
\* error whose result.code is a number other than 0 and 200 (negative numbers
\* included) is classified as Failure with a reason that contains the code.
C4_NonZeroNon200CodeFails ==
  /\ Classified /\ CleanBody
  /\ CodeOf(primaryResp).t = "number"
  /\ CodeOf(primaryResp).n \notin {0, 200}
  => tikhubFailed /\ Contains(failReason, CodeOf(primaryResp))

C4_Witness ==
  /\ Classified /\ CleanBody /\ CodeOf(primaryResp) = Num(-1)
  /\ tikhubFailed /\ Contains(failReason, Num(-1))

----------------------------------------------------------------------------
\* Empty as the claim lists it: absent (or null), an empty sequence, a mapping
\* with no keys, or a mapping with a data key and nothing but metadata keys
\* whose data is such a value.
RECURSIVE EmptyAsListed(_)
EmptyAsListed(v) ==
  \/ v.t \in {"undefined", "null"}
  \/ v.t = "array" /\ v.a = <<>>
  \/ v.t = "object" /\ v.o = <<>>
  \/ /\ v.t = "object"
     /\ "data" \in KeySet(v)
     /\ KeySet(v) \subseteq {"code", "data", "message", "recordTime", "msg"}
     /\ EmptyAsListed(Get(v, "data"))

----------------------------------------------------------------------------
\* The answer is one the classifier lets through: no top-level error, no
\* failing result.code, and a result.data the emptiness test judges non-empty.
NonEmptyAnswer ==
  /\ Classified /\ CleanBody
  /\ ~CodeFails(CodeOf(primaryResp))
  /\ ~isEmptyData(DataOf(primaryResp))

\* C6 as claimed: such an answer is a Success, the payload returned is
\* exactly result.data, and no fallback request is made.
C6_SuccessReturnsData ==
  NonEmptyAnswer =>
    /\ pc = "Done" /\ exit = "success" /\ ~tikhubFailed
    /\ outcome.via = "return" /\ ~outcome.isError
    /\ \E i \in 1..Len(outcome.text) :
         /\ outcome.text[i].t = "json"
         /\ outcome.text[i].v = DataOf(primaryResp)
         /\ outcome.text[i].n = StringifyLen(DataOf(primaryResp), 0)
    /\ ~Contains(outcome.text, ResultMarker)
    /\ fallbackCalls = 0

\* C6 as amended: such an answer is a Success, the payload returned is the
\* JSON text of result.data, cut after its first 50000 characters and
\* followed by a truncation marker when it is longer, and no fallback request
\* is made.
C6_SuccessReturnsDataCut ==
  NonEmptyAnswer =>
    /\ pc = "Done" /\ exit = "success" /\ ~tikhubFailed
    /\ outcome.via = "return" /\ ~outcome.isError
    /\ \E i \in 1..Len(outcome.text) :
         /\ outcome.text[i].t = "json"
         /\ outcome.text[i].v = DataOf(primaryResp)
         /\ outcome.text[i].n = Min(StringifyLen(DataOf(primaryResp), 0), 50000)
    /\ Contains(outcome.text, ResultMarker)
         <=> StringifyLen(DataOf(primaryResp), 0) > 50000
    /\ fallbackCalls = 0

C6_Witness ==
  /\ NonEmptyAnswer /\ exit = "success"
  /\ DataOf(primaryResp) = Obj(<< <<"timestamp", Num(123)>> >>)
  /\ outcome.text[Len(outcome.text)].v = DataOf(primaryResp)

----------------------------------------------------------------------------
\* The raw arguments of the inputs that are strings, not empty and not JSON:
\* {keyword:AI},  {"keyword":  and  not json
MalformedArguments ==
  { RawString(<<LP("{"), LBare("keyword"), LP(":"), LBare("AI"), LP("}")>>),
    RawString(<<LP("{"), LStr("keyword"), LP(":")>>),
    RawString(<<LBare("not"), LBare("json")>>) }

\* C7: with such arguments the dispatch ends at once with the
\* malformed-arguments error, no request sent to the gateway and none to the
\* search service.
C7_MalformedEndsAtOnce ==
  rawArgs \in MalformedArguments /\ pc # "Idle" =>
    /\ pc = "Done" /\ exit = "invalid_arguments"
    /\ outcome.text = <<Str("Invalid arguments JSON string")>>
    /\ outcome.via = "throw" \/ outcome.isError
    /\ primaryCalls = 0 /\ primaryReq = None
    /\ fallbackCalls = 0 /\ fallbackReq = None

C7_Witness ==
  /\ rawArgs \in MalformedArguments
  /\ pc = "Done" /\ exit = "invalid_arguments" /\ primaryCalls = 0

----------------------------------------------------------------------------
\* C8: once normalization has succeeded the arguments are a plain mapping,
\* whatever string, object or absent value was handed in.
C8_NormalizedIsMapping ==
  /\ pc # "Idle" /\ exit # "invalid_arguments"
  /\ rawArgs.t \in {"string", "undefined", "object"}
  => args.t = "object"

----------------------------------------------------------------------------
\* The primary call did not come to a parsed body: fetch threw (network
\* error, timeout), the status was not 2xx, or the body was no JSON.
TransportProblem(resp) ==
  resp.k \in {"throw", "status"} \/ (resp.k = "ok" /\ ~resp.json)

\* C9: a transport problem of the primary call is classified as Failure and
\* never reaches the caller as it is; for a non-2xx status the reason holds
\* the status code and at most the first 200 characters of the body; with a
\* keyword the fallback request follows.
C9_TransportProblemIsFailure ==
  Classified /\ TransportProblem(primaryResp) =>
    /\ tikhubFailed
    /\ exit \in {"none", "fallback", "error"}
    /\ primaryResp.k = "throw" => failReason = <<Str(primaryResp.msg)>>
    /\ primaryResp.k = "status" =>
         /\ Contains(failReason, Num(primaryResp.status))
         /\ \E i \in 1..Len(failReason) :
              /\ failReason[i].t = "slice"
              /\ failReason[i].n <= 200
              /\ failReason[i].n <= StrLen(failReason[i].s)
              /\ failReason[i].s = IF primaryResp.textFails THEN "" ELSE primaryResp.body
              /\ StrLen(failReason[i].s) <= 200 => failReason[i].n = StrLen(failReason[i].s)
    /\ KeywordExists(args) => fallbackCalls = 1 /\ fallbackReq # None

C9_Witness ==
  /\ Classified /\ primaryResp.k = "status" /\ primaryResp.body = LongBody
  /\ tikhubFailed /\ KeywordExists(args) /\ fallbackCalls = 1

----------------------------------------------------------------------------
\* C10: the error that ends a dispatch whose primary attempt failed holds
\* the primary failure reason and the fallback disposition: "no keyword"
\* exactly when the arguments hold no keyword, and then the search service
\* was never called; "fallback failed too" exactly when they hold one and the
\* search service was called and gave nothing.
C10_FatalMessage ==
  pc = "Done" /\ exit = "error" =>
    /\ tikhubFailed /\ failReason # <<>>
    /\ outcome.via = "throw" \/ outcome.isError
    /\ ContainsSeq(outcome.text, failReason)
    /\ Contains(outcome.text, NoKeyword) <=> ~KeywordExists(args)
    /\ ~KeywordExists(args) => fallbackCalls = 0 /\ fallbackResp = None
    /\ Contains(outcome.text, AlsoFailed) <=>
         KeywordExists(args) /\ fallbackCalls = 1 /\ fallbackResp # None

C10_Witness ==
  /\ pc = "Done" /\ exit = "error" /\ primaryCalls = 1
  /\ KeywordExists(args) /\ fallbackCalls = 1
  /\ Contains(outcome.text, AlsoFailed)

----------------------------------------------------------------------------
\* data.results of the search service's answer, undefined when there is none
ResultsOf(resp) ==
  IF resp.k = "ok" /\ resp.json THEN Get(resp.data, "results") ELSE Undefined

\* The search service answered as its interface says, with at least one result:
\* results is a non-empty array of result objects.
SearchReturned(resp) ==
  LET results == ResultsOf(resp) IN
  /\ results.t = "array"
  /\ Len(results.a) > 0
  /\ \A i \in 1..Len(results.a) : results.a[i].t = "object"

\* The lines of the text a fallback result ends with.
FallbackLines == outcome.text[Len(outcome.text)].lines

\* C11: when the primary call is classified as Failure, a keyword exists and
\* the fallback search returns at least one result, the dispatch ends with a
\* non-error result whose text states the primary failure reason, carries the
\* automatic-fallback marker, and lists every result the search service
\* returned (its number and title on one line, its url on the next).
C11_FallbackResultListsAll ==
  pc = "Done" /\ tikhubFailed /\ KeywordExists(args) /\ SearchReturned(fallbackResp)
  => /\ outcome.via = "return"
     /\ ~outcome.isError
     /\ failReason # <<>>
     /\ ContainsSeq(outcome.text, failReason)
     /\ outcome.text[Len(outcome.text)].t = "text"
     /\ Contains(FallbackLines, <<FallbackMarker>>)
     /\ \A i \in 1..Len(ResultsOf(fallbackResp).a) :
          LET r == ResultsOf(fallbackResp).a[i] IN
          ContainsSeq(FallbackLines,
                      << <<Num(i), Str(". "), Get(r, "title")>>,
                         <<Str("   "), Get(r, "url")>> >>)

\* A failed primary call with a keyword, the search returned two results, and
\* the dispatch has ended with the fallback result.
C11_Witness ==
  /\ pc = "Done"
  /\ exit = "fallback"
  /\ primaryCalls = 1
  /\ KeywordExists(args)
  /\ SearchReturned(fallbackResp)
  /\ Len(ResultsOf(fallbackResp).a) > 1

----------------------------------------------------------------------------
\* The transitions of the state machine Idle -> Calling -> Classifying ->
\* (Done | FallingBack) -> Done
ChainTransitions ==
  { <<"Idle", "Calling">>, <<"Calling", "Classifying">>, <<"Classifying", "Done">>,
    <<"Classifying", "FallingBack">>, <<"FallingBack", "Done">> }

\* At most one request to each endpoint, never both pending, and a request is
\* sent to the gateway only on leaving Idle.
OneCallEach ==
  /\ primaryCalls' <= 1
  /\ fallbackCalls' <= 1
  /\ inFlight' # Endpoints
  /\ primaryCalls' # primaryCalls => pc = "Idle" /\ pc' = "Calling"
  /\ fallbackCalls' # fallbackCalls => pc' = "FallingBack" /\ "primary" \notin inFlight'

\* C12 as claimed: one dispatch follows only the transitions Idle -> Calling ->
\* Classifying -> (Done | FallingBack) -> Done; it issues at most one primary
\* gateway request and at most one fallback search request, the two are never
\* in flight at the same time, and the primary call is never retried.
C12_OnlyChainTransitions ==
  [][(pc' # pc => <<pc, pc'>> \in ChainTransitions) /\ OneCallEach]_vars

\* C12 as amended: besides the transitions of the chain, a dispatch leaves Idle
\* for Done when it ends before any request (arguments rejected, or arguments
\* that are no mapping and make keyword extraction throw, or no API key on the
\* stdio server and no keyword), and for FallingBack when the stdio server has
\* no API key and a keyword exists. At most one primary and one fallback
\* request are issued, never both in flight, and no primary request is issued
\* after the first.
C12_ChainOrEarlyExit ==
  [][/\ pc' # pc =>
          \/ <<pc, pc'>> \in ChainTransitions
          \/ /\ pc = "Idle"
             /\ pc' = "Done"
             /\ primaryCalls' = 0
             /\ fallbackCalls' = 0
             /\ \/ exit' \in {"invalid_arguments", "uncaught"}
                \/ exit' = "error" /\ NoApiKey(host, apiKey) /\ ~Truthy(keyword')
          \/ /\ pc = "Idle"
             /\ pc' = "FallingBack"
             /\ NoApiKey(host, apiKey)
             /\ primaryCalls' = 0
             /\ Truthy(keyword')
     /\ OneCallEach]_vars

\* A dispatch that went through the whole chain: one primary request, then one
\* fallback request, both settled.
C12_Witness ==
  /\ pc = "Done"
  /\ primaryCalls = 1
  /\ fallbackCalls = 1
  /\ inFlight = {}
  /\ primaryResp # None
  /\ fallbackResp # None

----------------------------------------------------------------------------
\* C13: both network calls of a dispatch are issued with a timeout, so that
\* every dispatch, once begun, eventually reaches Done even when a remote
\* endpoint never responds.
C13_EveryDispatchEnds == (pc # "Idle") ~> (pc = "Done")

----------------------------------------------------------------------------
\* C14: if the caller's invocation is cancelled while the primary or the
\* fallback request is pending, that request is aborted, and no request of the
\* dispatch is pending from then on.
C14_CancelledLeavesNothingPending == cancelled => inFlight = {}

----------------------------------------------------------------------------
\* The text returned names the tool the dispatch was for.
NamesTool == Contains(outcome.text, Tool(toolName))

\* C15 as claimed: on every success path of a dispatch (the primary call was
\* classified as Success and its data is returned), the returned payload is
\* annotated with the originating tool name.
C15_SuccessNamesTool ==
  PrimarySuccess => outcome.via = "return" /\ ~outcome.isError /\ NamesTool

\* C15 as amended: when the gateway's answer carries a result object that
\* passes the code and emptiness tests, the returned text is "TikHub <tool
\* name> result:" followed by the payload; when the answer carries no result
\* object, the returned text is the rendering of the whole answer and does not
\* name the tool.
C15_StructuredSuccessNamesTool ==
  /\ pc = "Done" /\ exit = "success"
     => /\ outcome.via = "return"
        /\ ~outcome.isError
        /\ ContainsSeq(outcome.text,
                       <<Str("TikHub "), Tool(toolName), Str(" result:\n\n")>>)
        /\ TypeofObject(ResultOf(primaryResp)) /\ ResultOf(primaryResp) # Null
  /\ pc = "Done" /\ exit = "unstructured"
     => /\ outcome.via = "return"
        /\ ~outcome.isError
        /\ ~NamesTool
        /\ outcome.text[1].v = primaryResp.data
        /\ ~(TypeofObject(ResultOf(primaryResp)) /\ ResultOf(primaryResp) # Null)

\* A dispatch for a douyin tool has returned the gateway's structured result.
C15_Witness ==
  /\ pc = "Done"
  /\ exit = "success"
  /\ toolName[1] = "douyin"
  /\ NamesTool

----------------------------------------------------------------------------
\* The dispatch has extracted keyword and platform (it got past the
\* normalization of the arguments and the read of the keyword).
Extracted == pc # "Idle" /\ exit \notin {"invalid_arguments", "uncaught"}

\* C16: for every tool name whose first underscore-delimited segment is not
\* one of the ten configured platform codes, the platform labeler yields no
\* label and raises no error, so the query of the fallback request is the
\* keyword alone.
C16_UnknownPrefixNoLabel ==
  Extracted /\ toolName[1] \notin DOMAIN PLATFORM_NAMES
  => /\ platform = Undefined
     /\ fallbackReq # None => fallbackReq.query = <<keyword>>

----------------------------------------------------------------------------
\* The keys, by their place in the fixed order, under which the arguments hold
\* a non-empty string.
KeywordCandidates(a) ==
  {i \in 1..Len(KeywordKeys) : NonEmptyString(Get(a, KeywordKeys[i]))}

\* C17: when the arguments hold non-empty strings under several of the keys
\* keyword, query, search_keyword, keywords, the extracted keyword is the value
\* under the earliest of them in that fixed order, whatever the order in which
\* the arguments were written and whatever the alphabetical order of the keys.
C17_EarliestKeyWins ==
  Extracted /\ Cardinality(KeywordCandidates(args)) > 1
  => \E i \in KeywordCandidates(args) :
       /\ \A j \in KeywordCandidates(args) : i <= j
       /\ keyword = Get(args, KeywordKeys[i])

\* The arguments were written {keywords, query}: keywords comes first both as
\* written and alphabetically, and the keyword extracted is the one of query.
C17_Witness ==
  /\ Extracted
  /\ args.t = "object"
  /\ Len(args.o) > 1
  /\ args.o[1][1] = "keywords"
  /\ NonEmptyString(args.o[1][2])
  /\ args.o[2][1] = "query"
  /\ keyword = args.o[2][2]
  /\ keyword # args.o[1][2]

----------------------------------------------------------------------------
\* The dispatch is the repetition of an earlier one, its primary attempt has
\* been classified, and the gateway answered it as it answered the earlier one.
RepeatedAlike ==
  /\ first # None
  /\ pc \in {"FallingBack", "Done"}
  /\ primaryResp = first.primaryResp

----------------------------------------------------------------------------
\* The gateway answered with a parsed body that carries a non-empty string as
\* its top-level error.
ErrorBody ==
  /\ primaryResp.k = "ok"
  /\ primaryResp.json
  /\ primaryResp.data.t = "object"
  /\ NonEmptyString(Get(primaryResp.data, "error"))

\* result.code of the answer is a number that fails: not zero and not 200.
FailingCode ==
  /\ ResultOf(primaryResp).t = "object"
  /\ CodeOf(primaryResp).t = "number"
  /\ CodeOf(primaryResp).n # 0
  /\ CodeOf(primaryResp) # Num(200)

\* The reason is the one of a failing code: it names the code, and it is
\* neither the empty-data reason nor the reason of a transport failure.
IsCodeReason ==
  /\ Contains(failReason, CodeOf(primaryResp))
  /\ Contains(failReason, Str(" returned code "))
  /\ failReason # EmptyReason(toolName)

\* C19: classification stops at the first match in the order transport
\* failure, top-level error, result.code, empty data, success. A response with
\* a non-empty top-level error is a Failure with that error as the reason
\* whatever its result holds, and a response whose result.code fails is a
\* Failure with the code reason whether result.data is empty or not.
C19_FirstMatchDecides ==
  /\ Classified /\ TransportProblem(primaryResp)
     => /\ tikhubFailed
        /\ failReason # <<>>
        /\ ~Contains(failReason, Str(" returned code "))
        /\ failReason # EmptyReason(toolName)
  /\ Classified /\ ErrorBody
     => tikhubFailed /\ failReason = <<Get(primaryResp.data, "error")>>
  /\ Classified /\ CleanBody /\ FailingCode
     => tikhubFailed /\ IsCodeReason

\* An answer with an error and a result that would pass on its own has been
\* classified as failed with the error as reason.
C19_Witness ==
  /\ Classified
  /\ ErrorBody
  /\ CodeOf(primaryResp) = Num(200)
  /\ ~isEmptyData(DataOf(primaryResp))
  /\ tikhubFailed
  /\ failReason = <<Get(primaryResp.data, "error")>>

\* An answer with a failing code and data that is not empty has been
\* classified as failed with the code reason.
C19_WitnessCode ==
  /\ Classified
  /\ CleanBody
  /\ FailingCode
  /\ ~isEmptyData(DataOf(primaryResp))
  /\ IsCodeReason

----------------------------------------------------------------------------
\* The answer has a result the classifier goes into: if (result && typeof
\* result === "object")
HasResultObject ==
  Truthy(ResultOf(primaryResp)) /\ TypeofObject(ResultOf(primaryResp))

----------------------------------------------------------------------------
\* The emptiness test as specified: null or absent is empty; a sequence is
\* empty iff its length is 0; a mapping is empty iff it has no keys, or its
\* data value is empty and all its keys are metadata keys, or one of the
\* listing keys holds an empty sequence; nothing else is empty.
RECURSIVE EmptyAsSpecified(_)
EmptyAsSpecified(v) ==
  CASE v.t \in {"null", "undefined"} -> TRUE
    [] v.t = "array" -> v.a = <<>>
    [] v.t = "object" ->
         \/ KeySet(v) = {}
         \/ /\ "data" \in KeySet(v)
            /\ EmptyAsSpecified(Get(v, "data"))
            /\ \A k \in KeySet(v) : k \in {"code", "data", "message", "recordTime", "msg"}
         \/ \E k \in {"items", "item_list", "notes", "note_list", "list", "results",
                       "video_list"} :
              k \in KeySet(v) /\ Get(v, k).t = "array" /\ Get(v, k).a = <<>>
    [] OTHER -> FALSE

\* C21: isEmptyData agrees with the specified recursive emptiness test on
\* every JSON value: an answer whose result has no failing code is classified
\* as failed, with the empty-data reason, exactly when its result.data is
\* empty as specified; every other value, {timestamp: 123} included, is
\* returned.
C21_EmptinessAsSpecified ==
  Classified /\ CleanBody /\ HasResultObject /\ ~CodeFails(CodeOf(primaryResp))
  => /\ tikhubFailed <=> EmptyAsSpecified(DataOf(primaryResp))
     /\ tikhubFailed => failReason = EmptyReason(toolName)
     /\ ~tikhubFailed => exit = "success"

\* A wrapper of metadata keys around an object whose listing key is an empty
\* sequence has been classified as empty.
C21_Witness ==
  /\ Classified
  /\ CleanBody
  /\ DataOf(primaryResp).t = "object"
  /\ KeySet(DataOf(primaryResp)) = {"code", "data", "message", "recordTime"}
  /\ Get(DataOf(primaryResp), "data") = Obj(<< <<"items", Arr(<<>>)>> >>)
  /\ tikhubFailed
  /\ failReason = EmptyReason(toolName)

\* {timestamp: 123} as result.data has been returned as a success.
C21_WitnessIrrelevantKeys ==
  /\ Classified
  /\ DataOf(primaryResp) = Obj(<< <<"timestamp", Num(123)>> >>)
  /\ ~tikhubFailed
  /\ exit = "success"

----------------------------------------------------------------------------
\* The keys, by their place in the fixed order, that the arguments hold.
KeywordKeysPresent(a) ==
  {i \in 1..Len(KeywordKeys) : KeywordKeys[i] \in KeySet(a)}

\* C22 as claimed: the keyword extractor takes the first key that is present
\* in the order keyword, query, search_keyword, keywords and returns its value
\* only if that is a non-empty string; if the first present key holds a
\* non-string or an empty value there is no keyword, even when a later key
\* holds a non-empty string.
C22_FirstPresentKeyDecides ==
  Extracted /\ args.t = "object" /\ KeywordKeysPresent(args) # {}
  => \E i \in KeywordKeysPresent(args) :
       /\ \A j \in KeywordKeysPresent(args) : i <= j
       /\ keyword = IF NonEmptyString(Get(args, KeywordKeys[i]))
                    THEN Get(args, KeywordKeys[i])
                    ELSE Undefined

\* C22 as amended: the keyword extractor returns the value of the first key in
\* the order keyword, query, search_keyword, keywords whose value is a
\* non-empty string; a key that is absent or holds a non-string or an empty
\* value is passed over, and there is no keyword only if none of the four
\* holds a non-empty string.
C22_FirstNonEmptyStringDecides ==
  Extracted
  => IF KeywordCandidates(args) = {} THEN keyword = Undefined
     ELSE \E i \in KeywordCandidates(args) :
            /\ \A j \in KeywordCandidates(args) : i <= j
            /\ keyword = Get(args, KeywordKeys[i])

\* keyword is present and empty, and the keyword extracted is the one of query.
C22_Witness ==
  /\ Extracted
  /\ args.t = "object"
  /\ "keyword" \in KeySet(args)
  /\ Get(args, "keyword") = Str("")
  /\ NonEmptyString(Get(args, "query"))
  /\ keyword = Get(args, "query")

----------------------------------------------------------------------------
\* result.message of the answer
MessageOf(resp) == Get(ResultOf(resp), "message")

\* The answer has a result object whose code is present, truthy and not 200.
TruthyNon200Code ==
  /\ HasResultObject
  /\ HasKey(ResultOf(primaryResp), "code")
  /\ Truthy(CodeOf(primaryResp))
  /\ CodeOf(primaryResp) # Num(200)

\* C23: when result.code is present, truthy and not 200, the failure reason
\* is exactly "<tool name> returned code <code>: <message>", with "error" in
\* the place of the message when result.message is missing or empty, and the
\* fallback request is sent if a keyword exists.
C23_CodeReasonExact ==
  Classified /\ CleanBody /\ TruthyNon200Code
  => /\ tikhubFailed
     /\ Len(failReason) = Len(CodeReason(toolName, Undefined, Undefined))
     /\ SubSeq(failReason, 1, Len(failReason) - 1)
          = <<Tool(toolName), Str(" returned code "), CodeOf(primaryResp), Str(": ")>>
     /\ MessageOf(primaryResp) \in {Undefined, Null, Str("")}
          => failReason[Len(failReason)] = Str("error")
     /\ NonEmptyString(MessageOf(primaryResp))
          => failReason[Len(failReason)] = MessageOf(primaryResp)
     /\ KeywordExists(args) => fallbackCalls = 1 /\ fallbackReq # None

\* An answer with code 500, an empty message and data has failed with "error"
\* for the message, and the fallback request has been sent.
C23_Witness ==
  /\ Classified
  /\ CleanBody
  /\ TruthyNon200Code
  /\ MessageOf(primaryResp) = Str("")
  /\ failReason[Len(failReason)] = Str("error")
  /\ fallbackCalls = 1

----------------------------------------------------------------------------
\* The dispatch has normalized its arguments.
Normalized == pc # "Idle"

\* C24: the normalizer returns an object argument unchanged: the same mapping
\* is what the keyword is searched in and what is sent to the gateway; and it
\* maps an empty string and absent arguments to the empty mapping without
\* raising an error.
C24_NormalizerFrame ==
  /\ Normalized /\ rawArgs.t \in {"object", "array"}
     => /\ args = rawArgs
        /\ exit \notin {"invalid_arguments", "uncaught"}
        /\ keyword = (IF KeywordCandidates(rawArgs) = {} THEN Undefined
                      ELSE Get(rawArgs,
                               KeywordKeys[CHOOSE i \in KeywordCandidates(rawArgs) :
                                             \A j \in KeywordCandidates(rawArgs) : i <= j]))
        /\ primaryReq # None => primaryReq.arguments = rawArgs
  /\ Normalized /\ rawArgs \in {RawString(<<>>), Undefined}
     => /\ args = Obj(<<>>)
        /\ exit \notin {"invalid_arguments", "uncaught"}
        /\ primaryReq # None => primaryReq.arguments = Obj(<<>>)

\* The arguments were the empty string, and the request to the gateway
\* carries the empty mapping.
C24_Witness ==
  /\ pc = "Calling"
  /\ rawArgs = RawString(<<>>)
  /\ args = Obj(<<>>)
  /\ primaryReq.arguments = Obj(<<>>)

\* The arguments were an object, and the request to the gateway carries it.
C24_WitnessObject ==
  /\ pc = "Calling"
  /\ rawArgs.t = "object"
  /\ rawArgs # Obj(<<>>)
  /\ primaryReq.arguments = rawArgs

----------------------------------------------------------------------------
\* C25: the fallback sends exactly one request to the search endpoint, with
\* the query "<platform label> <keyword>" when a label was derived and the
\* keyword alone otherwise, with count 5, enrichment on and max_chars 5000.
C25_OneSearchRequest ==
  /\ fallbackCalls <= 1
  /\ fallbackCalls = 1 <=> fallbackReq # None
  /\ fallbackReq # None
     => /\ fallbackReq.path = "/search"
        /\ fallbackReq.query = (IF platform = Undefined THEN <<keyword>>
                                ELSE <<platform, Str(" "), keyword>>)
        /\ NonEmptyString(keyword)
        /\ fallbackReq.count = 5
        /\ fallbackReq.enrich = TRUE
        /\ fallbackReq.max_chars = 5000

\* The request of Scenario A: a tiktok tool, keyword "AI", query "TikTok AI".
C25_Witness ==
  /\ fallbackReq # None
  /\ toolName[1] = "tiktok"
  /\ fallbackReq.query = <<Str("TikTok"), Str(" "), Str("AI")>>
  /\ fallbackCalls = 1

----------------------------------------------------------------------------
\* The search request threw or timed out, came back with a non-success status
\* or a body that is no JSON, or its answer holds no results or none at all.
SearchUnavailable(resp) ==
  \/ resp.k \in {"throw", "status"}
  \/ resp.k = "ok" /\ ~resp.json
  \/ resp.k = "ok" /\ resp.json /\ ~Truthy(ResultsOf(resp))
  \/ resp.k = "ok" /\ resp.json /\ ResultsOf(resp) = Arr(<<>>)

\* C26: the fallback never lets an exception through: when the search request
\* throws, times out, returns a non-success status or returns missing or zero
\* results, the dispatch ends with the fatal outcome of its host (an isError
\* result on the stdio server, an Error thrown by the plugin) whose message
\* is the primary failure reason followed by the notice that the web search
\* failed too.
C26_UnavailableFallbackIsFatal ==
  pc = "Done" /\ fallbackResp # None /\ SearchUnavailable(fallbackResp)
  => /\ exit = "error"
     /\ tikhubFailed
     /\ outcome.text = <<FailedPrefix>> \o failReason \o <<AlsoFailed>>
     /\ host = "mcp" => outcome.via = "return" /\ outcome.isError
     /\ host = "plugin" => outcome.via = "throw" /\ outcome.name = "Error"

\* Scenario E: the search returned zero results and the dispatch has ended
\* with the combined message.
C26_Witness ==
  /\ pc = "Done"
  /\ fallbackResp # None
  /\ ResultsOf(fallbackResp) = Arr(<<>>)
  /\ exit = "error"
  /\ Contains(outcome.text, AlsoFailed)

----------------------------------------------------------------------------
\* The dispatch repeats, on the other host, an earlier one; its primary
\* attempt has been classified on the answer the earlier one got.
OtherHostAlike ==
  /\ first # None
  /\ first.host # host
  /\ pc \in {"FallingBack", "Done"}
  /\ primaryResp = first.primaryResp

\* The two hosts come to the same classification with the same reason, make
\* the same fallback decision and build the same fallback query; when the
\* search service answered the same too, the outcomes are the same but for a
\* fatal one, which the stdio server returns as an isError result and the
\* plugin throws as an Error with the same message.
C27_SameClassification ==
  OtherHostAlike
  => /\ tikhubFailed = first.tikhubFailed
     /\ failReason = first.failReason
     /\ (fallbackCalls > 0) = first.fellBack
     /\ fallbackReq # None => fallbackReq.query = first.query
     /\ pc = "Done" /\ fallbackResp = first.fallbackResp
        => /\ exit = first.exit
           /\ outcome.text = first.outcome.text
           /\ exit \in {"error", "invalid_arguments"}
              => LET m == IF host = "mcp" THEN outcome ELSE first.outcome
                     p == IF host = "mcp" THEN first.outcome ELSE outcome
                 IN /\ m.via = "return" /\ m.isError
                    /\ p.via = "throw" /\ p.name = "Error"
           /\ exit \notin {"error", "invalid_arguments"} => outcome = first.outcome

\* The request a dispatch awaits on the one host settles if the request the
\* same dispatch awaited on the other host did.
C27_SameSettling ==
  first # None /\ first.host # host
  => /\ pc = "Calling"
        => Settlements("primary", primaryReq, GatewayResponses, first.primaryResp) # {}
     /\ pc = "FallingBack" /\ first.fallbackResp # None
        => Settlements("fallback", fallbackReq, SearchResponses, first.fallbackResp) # {}

\* C27: for every tool name, arguments value and remote behaviour, with a
\* TikHub key configured, the tikhub_call of the stdio server and the one of
\* the plugin reach the same classification with the same failure reason,
\* make the same fallback decision and build the same fallback query; they
\* differ in nothing but the delivery of a fatal outcome, an isError result
\* on the one and a thrown error on the other.
C27_HostsDifferOnlyInDelivery == C27_SameClassification /\ C27_SameSettling

------------------------------------------------------------------------------
\* What a dispatch comes to when it runs alone: a function of the host and its
\* key, of the tool and the arguments of the dispatch, and of the answers to the
\* requests of the dispatch.
OutcomeAlone(h, key, tool, raw, presp, fresp) ==
  LET norm == Normalize(raw) IN
  IF ~norm.ok THEN InvalidArguments(h)
  ELSE IF ~CanRead(norm.val)
  THEN Throw("TypeError", <<Str("Cannot read properties of null (reading 'keyword')")>>)
  ELSE LET kw == extractKeyword(norm.val)
           c == IF NoApiKey(h, key) THEN Failed(<<Str("API key not configured")>>)
                ELSE ClassifyResponse(tool, presp)
       IN IF ~c.failed THEN Return(c.text, FALSE)
          ELSE IF ~FallsBack(TRUE, kw) THEN Fatal(h, TRUE, c.reason, kw)
          ELSE LET result == fallbackWebSearch(fresp) IN
               IF Truthy(result) THEN Return(FallbackText(c.reason, result), FALSE)
               ELSE Fatal(h, TRUE, c.reason, kw)

\* The search request a dispatch sends when it runs alone.
RequestAlone(h, tool, raw) ==
  SearchRequest(h, extractKeyword(Normalize(raw).val), extractPlatform(tool))

\* The locals l are those of a run that is over and came to what it would have
\* come to alone.
EndsAsAlone(l) ==
  l.pc = "Done"
    => /\ l.outcome = OutcomeAlone(host, apiKey, l.toolName, l.rawArgs,
                                   l.primaryResp, l.fallbackResp)
       /\ l.fallbackCalls = 1 => l.fallbackReq = RequestAlone(host, l.toolName, l.rawArgs)

\* C28: of two dispatches interleaved at their awaits, each one ends with the
\* outcome that its own tool, its own arguments and the answers to its own
\* requests determine, and sends the search request that its own keyword and
\* platform determine, whatever the other one does in between.
C28_OutcomeFromOwnInputs ==
  other # None => EndsAsAlone(Locals) /\ EndsAsAlone(other)

\* A dispatch is over, begun and ended while the other one was under way: the
\* other one still awaits its search request. Both failed at the gateway, for
\* different reasons, and the one that is over fell back and tells its own.
C28_Witness ==
  /\ other # None
  /\ pc = "Done" /\ exit = "fallback"
  /\ other.pc = "FallingBack" /\ other.tikhubFailed
  /\ failReason # other.failReason
  /\ Contains(outcome.text, Str("TikHub failed ("))

------------------------------------------------------------------------------
\* "API key not configured"
NotConfigured == <<Str("API key not configured")>>

\* C29: in the stdio server without a TikHub key, a dispatch whose arguments
\* were accepted sends no request to the gateway, is classified as Failure with
\* the reason "API key not configured", and has sent the search request when
\* the arguments hold a keyword; in the plugin without a key no dispatch takes
\* place, as the tool is not registered.
C29_NoKeyFailsAndFallsBack ==
  /\ host = "mcp" /\ ~apiKey /\ pc # "Idle" /\ exit # "invalid_arguments" =>
       /\ primaryCalls = 0 /\ primaryReq = None /\ primaryResp = None
       /\ tikhubFailed /\ failReason = NotConfigured
       /\ KeywordExists(args) => fallbackCalls = 1 /\ fallbackReq # None
  /\ host = "plugin" /\ ~apiKey => pc = "Idle" /\ primaryCalls = 0 /\ fallbackCalls = 0

\* The same for the dispatches that get as far as the test of the key: those
\* whose arguments can be read for a keyword.
C29_NoKeyWhenArgumentsAreRead ==
  /\ host = "mcp" /\ ~apiKey /\ Extracted =>
       /\ primaryCalls = 0 /\ primaryReq = None /\ primaryResp = None
       /\ tikhubFailed /\ failReason = NotConfigured
       /\ KeywordExists(args) => fallbackCalls = 1 /\ fallbackReq # None
  /\ host = "plugin" /\ ~apiKey => pc = "Idle" /\ primaryCalls = 0 /\ fallbackCalls = 0

\* The stdio server without a key has failed a dispatch for the missing key and
\* awaits the search service.
C29_FallsBackWithoutKey ==
  /\ host = "mcp" /\ ~apiKey /\ pc = "FallingBack"
  /\ primaryCalls = 0 /\ failReason = NotConfigured /\ fallbackCalls = 1

------------------------------------------------------------------------------
\* apiCall threw for this answer: no connection, a timeout, a status that is
\* not a success, or a body that is no JSON.
RequestFailed(resp) == resp.k # "ok" \/ ~resp.json

\* The message of the first failure.
FirstMessage == TryBlock(webSearch.answers[1]).msg

\* C30: an invocation of the plugin's web_search sends at most two requests,
\* both to /search. The second one is sent only after the first one has failed,
\* with enrich asked for and a failure message that holds "TimeoutError" or
\* "abort"; it asks for enrich = false and has a timeout of 10 s. When it fails
\* as well, the invocation throws an error that carries the message of the first
\* failure.
C30_RetriesOnceWithoutEnrich ==
  webSearch # None =>
    LET sent == Len(webSearch.requests)
        settled == Len(webSearch.answers) IN
    /\ sent <= 2
    /\ \A i \in 1..sent : /\ webSearch.requests[i].method = "POST"
                          /\ webSearch.requests[i].path = "/search"
    /\ sent = 2 =>
         /\ settled >= 1
         /\ RequestFailed(webSearch.answers[1])
         /\ Get(webSearch.params, "enrich") = Bool(TRUE)
         /\ \/ ContainsSeq(FirstMessage, TimeoutErrorWord)
            \/ ContainsSeq(FirstMessage, AbortWord)
         /\ Get(webSearch.requests[2].body, "enrich") = Bool(FALSE)
         /\ webSearch.requests[2].timeoutMs = RetryTimeoutMs
    /\ settled = 2 /\ ~TryBlock(webSearch.answers[2]).ok =>
         /\ webSearch.pc = "Done"
         /\ webSearch.outcome.via = "throw"
         /\ webSearch.outcome.text = SearchFailedPrefix \o FirstMessage

\* The first request timed out with enrich asked for, the second one failed
\* for another reason, and the invocation has thrown.
C30_Witness ==
  /\ webSearch # None
  /\ webSearch.pc = "Done"
  /\ Len(webSearch.requests) = 2 /\ Len(webSearch.answers) = 2
  /\ webSearch.answers[1].k = "throw"
  /\ webSearch.answers[2].k = "status"
  /\ webSearch.outcome.via = "throw"
  /\ ContainsSeq(webSearch.outcome.text, AbortedDueToTimeout)

\* The second request gave results, which are returned under the notice.
C30_WitnessRetryReturns ==
  /\ webSearch # None
  /\ webSearch.pc = "Done"
  /\ Len(webSearch.answers) = 2
  /\ webSearch.outcome.via = "return"
  /\ webSearch.outcome.text[1] = <<EnrichTimedOut>>

==============================================================================
